---------------------------- MODULE Spec2Model ----------------------------
(***************************************************************************)
(* A model of the regex engine of src/src/regex_impl.cc: the recursive     *)
(* descent parser (RegexParser), the compiler to a flat instruction        *)
(* program (RegexCompiler) and the threaded virtual machine that executes  *)
(* the program (ThreadedRegexVM, whose header is not part of src/ and is   *)
(* modelled from spec.md section 4.3).                                     *)
(*                                                                         *)
(* Pattern and subject texts are sequences of code points (integers).      *)
(* Indices into the C++ vectors (AST nodes, instructions, lookarounds,     *)
(* matchers) are 0-based as in the source; element i of a vector v is      *)
(* v[i+1] of the TLA+ sequence.                                            *)
(***************************************************************************)
EXTENDS Integers, Sequences, FiniteSets, TLC

(***************************************************************************)
(* Code points.  Code gives the code point of every character the model    *)
(* writes patterns and subjects with.                                      *)
(***************************************************************************)
Code ==
    ("a" :> 97) @@ ("b" :> 98) @@ ("c" :> 99) @@ ("d" :> 100) @@ ("f" :> 102) @@
    ("h" :> 104) @@ ("i" :> 105) @@ ("k" :> 107) @@ ("n" :> 110) @@ ("r" :> 114) @@
    ("s" :> 115) @@ ("t" :> 116) @@ ("u" :> 117) @@ ("v" :> 118) @@ ("w" :> 119) @@
    ("x" :> 120) @@ ("z" :> 122) @@
    ("A" :> 65) @@ ("B" :> 66) @@ ("D" :> 68) @@ ("E" :> 69) @@ ("H" :> 72) @@
    ("I" :> 73) @@ ("K" :> 75) @@ ("Q" :> 81) @@ ("S" :> 83) @@ ("W" :> 87) @@
    ("0" :> 48) @@ ("1" :> 49) @@ ("2" :> 50) @@ ("3" :> 51) @@ ("4" :> 52) @@
    ("5" :> 53) @@ ("6" :> 54) @@ ("7" :> 55) @@ ("8" :> 56) @@ ("9" :> 57) @@
    ("(" :> 40) @@ (")" :> 41) @@ ("*" :> 42) @@ ("+" :> 43) @@ ("," :> 44) @@
    ("-" :> 45) @@ ("." :> 46) @@ (":" :> 58) @@ ("<" :> 60) @@ ("=" :> 61) @@
    ("?" :> 63) @@ ("!" :> 33) @@ ("[" :> 91) @@ ("\\" :> 92) @@ ("]" :> 93) @@
    ("^" :> 94) @@ ("_" :> 95) @@ ("{" :> 123) @@ ("|" :> 124) @@ ("}" :> 125) @@
    ("$" :> 36) @@ (" " :> 32) @@ ("NL" :> 10) @@ ("TAB" :> 9) @@ ("NUL" :> 0) @@
    ("KELVIN" :> 8490) @@ ("MICRO" :> 181) @@ ("yuml" :> 255) @@ ("YUML" :> 376)

Ord(ch) == Code[ch]

\* The text written with the characters of chars, as code points.
S(chars) == [i \in 1..Len(chars) |-> Ord(chars[i])]

(***************************************************************************)
(* The Unicode oracle (unicode.hh: to_lower, to_upper, is_upper, is_word   *)
(* and the wctype classes), restricted to ASCII, Latin-1 and the code      *)
(* points of Code beyond them, with Unicode's simple case mappings.        *)
(***************************************************************************)
to_lower(cp) ==
    IF cp >= 65 /\ cp <= 90 THEN cp + 32
    ELSE IF cp >= 192 /\ cp <= 222 /\ cp # 215 THEN cp + 32
    ELSE IF cp = 376 THEN 255
    ELSE IF cp = 8490 THEN 107
    ELSE cp

to_upper(cp) ==
    IF cp >= 97 /\ cp <= 122 THEN cp - 32
    ELSE IF cp >= 224 /\ cp <= 254 /\ cp # 247 THEN cp - 32
    ELSE IF cp = 255 THEN 376
    ELSE IF cp = 181 THEN 924
    ELSE cp

is_upper(cp) == to_lower(cp) # cp

is_digit(cp) == cp >= 48 /\ cp <= 57

is_alnum(cp) ==
    \/ is_digit(cp)
    \/ to_lower(cp) # cp
    \/ to_upper(cp) # cp

is_space(cp) == cp \in {9, 10, 11, 12, 13, 32}

is_word(cp) == is_alnum(cp) \/ cp = 95

iswctype(cp, ctype) ==
    CASE ctype = "digit" -> is_digit(cp)
      [] ctype = "alnum" -> is_alnum(cp)
      [] ctype = "space" -> is_space(cp)
      [] OTHER -> FALSE

(***************************************************************************)
(* ParsedRegex: quantifiers and AST nodes.                                 *)
(***************************************************************************)
\* Optional<AstNodeIndex>{}: no node.
NoNode == -1

\* Codepoint value = -1: the node has no value.
NoValue == -1

Quantifier(type, greedy, min, max) ==
    [type |-> type, greedy |-> greedy, min |-> min, max |-> max]

QuantifierOne == Quantifier("One", TRUE, -1, -1)

allows_none(q) ==
    \/ q.type = "Optional"
    \/ q.type = "RepeatZeroOrMore"
    \/ (q.type = "RepeatMinMax" /\ q.min <= 0)

allows_infinite_repeat(q) ==
    \/ q.type = "RepeatZeroOrMore"
    \/ q.type = "RepeatOneOrMore"
    \/ (q.type = "RepeatMinMax" /\ q.max = -1)

\* nodes[index] of a node vector.
NodeAt(nodes, index) == nodes[index + 1]

\* The children of node index, in order (for_each_child's walk).
RECURSIVE ChildrenFrom(_, _, _)
ChildrenFrom(nodes, child, end) ==
    IF child = end \/ child >= Len(nodes) THEN <<>>
    ELSE <<child>> \o ChildrenFrom(nodes, NodeAt(nodes, child).children_end, end)

Children(nodes, index) ==
    ChildrenFrom(nodes, index + 1, NodeAt(nodes, index).children_end)

Reverse(seq) == [i \in 1..Len(seq) |-> seq[Len(seq) + 1 - i]]

\* The children of node index, last first (for_each_child_reverse's walk).
ChildrenReverse(nodes, index) == Reverse(Children(nodes, index))

(***************************************************************************)
(* RegexParser.  The parser is a record st: the pattern m_regex, the       *)
(* cursor m_pos (1-based, Len+1 at the end), the ParsedRegex being built   *)
(* (nodes, capture_count, matchers), the mode m_ignore_case, err (a        *)
(* regex_error was thrown), ub (the cursor was dereferenced at the end of  *)
(* the pattern) and the value returned by the last call (ret for a node    *)
(* index, quant for a quantifier).                                         *)
(*                                                                         *)
(* The characters of the syntax are written as code points:                *)
(*   33 !   36 $   40 (   41 )   42 *   43 +   44 ,   45 -   46 .   48 0   *)
(*   58 :   60 <   61 =   63 ?   91 [   92 \   93 ]   94 ^   95 _          *)
(*   123 {  124 |  125 }   65 A   66 B   69 E   73 I   75 K   81 Q         *)
(*   98 b   99 c   100 d  102 f  104 h  105 i  110 n  114 r  115 s         *)
(*   116 t  117 u  118 v  119 w  120 x  122 z   9 TAB   10 NL   32 space   *)
(***************************************************************************)
max_nodes == 65535

max_repeat == 1000

at_end(st) == st.m_pos > Len(st.m_regex)

\* *m_pos and *(m_pos + k), where the cursor is inside the pattern.
peek(st) == st.m_regex[st.m_pos]

peek_at(st, k) == st.m_regex[st.m_pos + k]

advance(st, n) == [st EXCEPT !.m_pos = @ + n]

parse_error(st) == [st EXCEPT !.err = TRUE, !.ret = NoNode]

\* A dereference of the cursor at the end of the pattern.
deref_at_end(st) == [st EXCEPT !.err = TRUE, !.ub = TRUE, !.ret = NoNode]

\* return {} of an Optional<AstNodeIndex>.
no_node(st) == [st EXCEPT !.ret = NoNode]

new_node(st, op, value) ==
    LET res == Len(st.nodes) IN
    IF res = max_nodes THEN parse_error(st)
    ELSE [st EXCEPT
            !.nodes = Append(@, [op |-> op,
                                 ignore_case |-> st.m_ignore_case,
                                 children_end |-> (res + 1) % 65536,
                                 value |-> value,
                                 quantifier |-> QuantifierOne]),
            !.ret = res]

node_left_open(st, index) == [st EXCEPT !.ret = index]

\* get_node(index).children_end = m_parsed_regex.nodes.size()
close_node(st, index) ==
    [st EXCEPT !.nodes[index + 1].children_end = Len(st.nodes) % 65536,
               !.ret = index]

accepts(st, expected) ==
    /\ st.m_pos + Len(expected) - 1 <= Len(st.m_regex)
    /\ \A i \in 1..Len(expected) : st.m_regex[st.m_pos + i - 1] = expected[i]

\* while (modifiers()) {}
RECURSIVE modifiers(_)
modifiers(st) ==
    IF accepts(st, <<40, 63, 105, 41>>)
    THEN modifiers([advance(st, 4) EXCEPT !.m_ignore_case = TRUE])
    ELSE IF accepts(st, <<40, 63, 73, 41>>)
    THEN modifiers([advance(st, 4) EXCEPT !.m_ignore_case = FALSE])
    ELSE st

\* read_bound: the digits from pos on, as [pos, res, err].
RECURSIVE read_bound(_, _, _, _)
read_bound(text, pos, begin, res) ==
    IF pos > Len(text) THEN [pos |-> pos, res |-> res, err |-> FALSE]
    ELSE LET cp == text[pos] IN
         IF cp < 48 \/ cp > 57
         THEN [pos |-> pos, res |-> IF pos = begin THEN -1 ELSE res, err |-> FALSE]
         ELSE LET r == res * 10 + cp - 48 IN
              IF r > max_repeat THEN [pos |-> pos, res |-> r, err |-> TRUE]
              ELSE read_bound(text, pos + 1, begin, r)

\* check_greedy, then the quantifier of the given type and bounds.
with_greedy(st, type, min, max) ==
    IF at_end(st) \/ peek(st) # 63
    THEN [st EXCEPT !.quant = Quantifier(type, TRUE, min, max)]
    ELSE [advance(st, 1) EXCEPT !.quant = Quantifier(type, FALSE, min, max)]

quantifier(st) ==
    LET text == st.m_regex
        \* b1 and b2 are the bounds read before and after the comma
        closed(b1, b2) ==
            IF b2.err THEN parse_error([st EXCEPT !.m_pos = b2.pos])
            ELSE IF b2.pos > Len(text) THEN deref_at_end([st EXCEPT !.m_pos = b2.pos])
            ELSE IF text[b2.pos] # 125 THEN parse_error([st EXCEPT !.m_pos = b2.pos + 1])
            ELSE with_greedy([st EXCEPT !.m_pos = b2.pos + 1], "RepeatMinMax",
                             b1.res, b2.res)
        opened(b1) ==
            IF b1.err THEN parse_error([st EXCEPT !.m_pos = b1.pos])
            ELSE IF b1.pos > Len(text) THEN deref_at_end([st EXCEPT !.m_pos = b1.pos])
            ELSE IF text[b1.pos] = 44
            THEN closed(b1, read_bound(text, b1.pos + 1, b1.pos + 1, 0))
            ELSE closed(b1, b1)
        at(cp) ==
            IF cp = 42 THEN with_greedy(advance(st, 1), "RepeatZeroOrMore", -1, -1)
            ELSE IF cp = 43 THEN with_greedy(advance(st, 1), "RepeatOneOrMore", -1, -1)
            ELSE IF cp = 63 THEN with_greedy(advance(st, 1), "Optional", -1, -1)
            ELSE IF cp = 123 THEN opened(read_bound(text, st.m_pos + 1, st.m_pos + 1, 0))
            ELSE [st EXCEPT !.quant = QuantifierOne]
    IN IF at_end(st) THEN [st EXCEPT !.quant = QuantifierOne] ELSE at(peek(st))

\* validate_lookaround without its test of the quantifiers.
lookaround_quantifiers_allowed(st, index) ==
    IF \E i \in 1..Len(Children(st.nodes, index)) :
           NodeAt(st.nodes, Children(st.nodes, index)[i]).op
               \notin {"Literal", "Matcher", "AnyChar"}
    THEN parse_error(st)
    ELSE [st EXCEPT !.ret = index]

validate_lookaround(st, index) ==
    LET bad(child) ==
            LET node == NodeAt(st.nodes, child) IN
            \/ node.op \notin {"Literal", "Matcher", "AnyChar"}
            \/ node.quantifier.type # "One"
        kids == Children(st.nodes, index)
    IN IF \E i \in 1..Len(kids) : bad(kids[i]) THEN parse_error(st)
       ELSE [st EXCEPT !.ret = index]

\* character_class_escapes and control_escapes.
class_escape_ctype(cp) ==
    CASE cp = 100 -> "digit"
      [] cp = 119 -> "alnum"
      [] cp = 115 -> "space"
      [] OTHER -> ""

class_escape_chars(cp) ==
    CASE cp = 119 -> <<95>>
      [] cp = 104 -> <<32, 9>>
      [] OTHER -> <<>>

is_class_escape(cp) == cp \in {100, 119, 115, 104}

is_control_escape(cp) == cp \in {102, 110, 114, 116, 118}

control_escape_value(cp) ==
    CASE cp = 102 -> 12
      [] cp = 110 -> 10
      [] cp = 114 -> 13
      [] cp = 116 -> 9
      [] cp = 118 -> 11

SyntaxCharacters == {94, 36, 92, 46, 42, 43,
                     63, 40, 41, 91, 93, 123,
                     125, 124}

\* The matcher closure of a class escape, as data.
escape_matcher(cp) ==
    [kind |-> "escape",
     ctype |-> class_escape_ctype(to_lower(cp)),
     chars |-> class_escape_chars(to_lower(cp)),
     neg |-> is_upper(cp)]

\* read_hex(count): [st, res] with st.err set on a missing or invalid digit.
RECURSIVE read_hex(_, _, _)
read_hex(st, count, res) ==
    IF count = 0 THEN [st EXCEPT !.ret = res]
    ELSE IF at_end(st) THEN parse_error(st)
    ELSE LET digit == peek(st)
             s1 == advance(st, 1)
         IN
         IF digit >= 48 /\ digit <= 57
         THEN read_hex(s1, count - 1, res * 16 + digit - 48)
         ELSE IF digit >= 97 /\ digit <= 102
         THEN read_hex(s1, count - 1, res * 16 + 10 + digit - 97)
         ELSE IF digit >= 65 /\ digit <= 70
         THEN read_hex(s1, count - 1, res * 16 + 10 + digit - 65)
         ELSE parse_error(s1)

\* std::search(m_pos.base(), m_regex.end(), "\\E"): the index of the end mark,
\* Len + 1 when there is none.
RECURSIVE quote_end(_, _)
quote_end(text, pos) ==
    IF pos > Len(text) THEN pos
    ELSE IF pos < Len(text) /\ text[pos] = 92 /\ text[pos + 1] = 69 THEN pos
    ELSE quote_end(text, pos + 1)

\* while (m_pos != quote_end) new_node(Literal, *m_pos++)
RECURSIVE quoted_literals(_, _)
quoted_literals(st, end) ==
    IF st.err \/ st.m_pos = end THEN st
    ELSE quoted_literals(new_node(advance(st, 1), "Literal", peek(st)), end)

atom_escape(st) ==
    LET s1 == advance(st, 1)
        \* \Q: the literals up to end, in the Sequence opened at s2.ret
        closed(s3, escaped_sequence, end) ==
            IF s3.err THEN s3
            ELSE IF end <= Len(s3.m_regex) THEN advance(close_node(s3, escaped_sequence), 2)
            ELSE close_node(s3, escaped_sequence)
        opened(s2, end) ==
            IF s2.err THEN s2 ELSE closed(quoted_literals(s2, end), s2.ret, end)
        literal(h) == IF h.err THEN h ELSE new_node(h, "Literal", h.ret)
        at(cp) ==
            IF cp = 81
            THEN opened(new_node(s1, "Sequence", NoValue), quote_end(s1.m_regex, s1.m_pos))
            ELSE IF is_class_escape(to_lower(cp)) THEN
                new_node([s1 EXCEPT !.matchers = Append(@, escape_matcher(cp))],
                         "Matcher", Len(s1.matchers))
            ELSE IF is_control_escape(cp) THEN new_node(s1, "Literal", control_escape_value(cp))
            ELSE IF cp = 48 THEN new_node(s1, "Literal", 0)
            ELSE IF cp = 99 THEN
                IF at_end(s1) THEN parse_error(s1)
                ELSE IF (peek(s1) >= 97 /\ peek(s1) <= 122) \/ (peek(s1) >= 65 /\ peek(s1) <= 90)
                THEN new_node(advance(s1, 1), "Literal", peek(s1) % 32)
                ELSE parse_error(advance(s1, 1))
            ELSE IF cp = 120 THEN literal(read_hex(s1, 2, 0))
            ELSE IF cp = 117 THEN literal(read_hex(s1, 4, 0))
            ELSE IF cp \in SyntaxCharacters THEN new_node(s1, "Literal", cp)
            ELSE parse_error(s1)
    IN IF at_end(st) THEN deref_at_end(st) ELSE at(peek(st))

(***************************************************************************)
(* Character classes.  A CharRange is [min, max].                          *)
(***************************************************************************)
CharRange(min, max) == [min |-> min, max |-> max]

ranges_left_unsorted(ranges) == ranges

\* std::sort by min, as an insertion sort.
RECURSIVE sort_ranges(_)
sort_ranges(ranges) ==
    IF Len(ranges) <= 1 THEN ranges
    ELSE LET rest == sort_ranges(Tail(ranges))
             r == Head(ranges)
             k == Cardinality({i \in 1..Len(rest) : rest[i].min < r.min})
         IN SubSeq(rest, 1, k) \o <<r>> \o SubSeq(rest, k + 1, Len(rest))

\* The merge loop of normalize_ranges: out is ranges[begin..pos], next the
\* index of the range looked at.
RECURSIVE merge_ranges(_, _, _)
merge_ranges(out, ranges, next) ==
    IF next > Len(ranges) THEN out
    ELSE LET pos == out[Len(out)]
             nxt == ranges[next]
         IN IF pos.max + 1 >= nxt.min
            THEN merge_ranges(
                    [out EXCEPT ![Len(out)].max = IF nxt.max > pos.max THEN nxt.max ELSE pos.max],
                    ranges, next + 1)
            ELSE merge_ranges(Append(out, nxt), ranges, next + 1)

normalize_ranges(ranges) ==
    IF ranges = <<>> THEN ranges
    ELSE LET sorted == sort_ranges(ranges) IN
         merge_ranges(<<sorted[1]>>, sorted, 2)

\* The ranges of a class as folded when m_ignore_case is set.
fold_ranges(ranges) ==
    [i \in 1..Len(ranges) |->
        CharRange(to_lower(ranges[i].max), to_lower(ranges[i].max))]

fold_excluded(excluded) == [i \in 1..Len(excluded) |-> to_lower(excluded[i])]

\* The loop of character_class over the items of the class.  cc is the
\* parser st with the vectors ranges, excluded and ctypes.
RECURSIVE class_items(_)
class_items(cc) ==
    LET st == cc.st IN
    IF st.err \/ at_end(st) \/ peek(st) = 93 THEN cc
    ELSE
    LET cp == peek(st)
        s1 == advance(st, 1)
        \* the part of the loop body from "CharRange range = { cp, cp }" on
        range_item(s, c) ==
            IF at_end(s) THEN [cc EXCEPT !.st = deref_at_end(s)]
            ELSE IF peek(s) # 45
            THEN class_items([cc EXCEPT !.st = s,
                                        !.ranges = Append(@, CharRange(c, c))])
            ELSE LET s2 == advance(s, 1) IN
                 IF at_end(s2) THEN [cc EXCEPT !.st = s2]
                 ELSE IF peek(s2) # 93
                 THEN LET max == peek(s2) IN
                      IF c > max THEN [cc EXCEPT !.st = parse_error(advance(s2, 1))]
                      ELSE class_items([cc EXCEPT !.st = advance(s2, 1),
                                                  !.ranges = Append(@, CharRange(c, max))])
                 ELSE class_items([cc EXCEPT
                        !.st = s2,
                        !.ranges = @ \o <<CharRange(c, c), CharRange(45, 45)>>])
    IN
    IF cp = 45
    THEN class_items([cc EXCEPT !.st = s1,
                                !.ranges = Append(@, CharRange(45, 45))])
    ELSE IF at_end(s1) THEN [cc EXCEPT !.st = s1]
    ELSE IF cp = 92 THEN
        LET e == peek(s1) IN
        IF is_class_escape(to_lower(e)) THEN
            LET negative == is_upper(e)
                ctype == class_escape_ctype(to_lower(e))
                chars == class_escape_chars(to_lower(e))
            IN class_items([cc EXCEPT
                    !.st = advance(s1, 1),
                    !.ctypes = IF ctype # "" THEN Append(@, [ctype |-> ctype, positive |-> ~negative])
                               ELSE @,
                    !.excluded = IF negative THEN @ \o chars ELSE @,
                    !.ranges = IF negative THEN @
                               ELSE @ \o [i \in 1..Len(chars) |-> CharRange(chars[i], chars[i])]])
        ELSE range_item(advance(s1, 1),
                        IF is_control_escape(e) THEN control_escape_value(e) ELSE e)
    ELSE range_item(s1, cp)

character_class(st) ==
    LET negative == ~at_end(st) /\ peek(st) = 94
        \* s2 is the parser past the closing bracket
        built(s2, ranges, ctypes, excluded) ==
            IF ctypes = <<>> /\ excluded = <<>> /\ ~negative
               /\ Len(ranges) = 1 /\ ranges[1].min = ranges[1].max
            THEN new_node(s2, "Literal", ranges[1].min)
            ELSE new_node([s2 EXCEPT !.matchers =
                                Append(@, [kind |-> "class", ranges |-> ranges,
                                           ctypes |-> ctypes, excluded |-> excluded,
                                           negative |-> negative,
                                           ignore_case |-> s2.m_ignore_case])],
                          "Matcher", Len(s2.matchers))
        parsed(cc) ==
            IF cc.st.err THEN cc.st
            ELSE IF at_end(cc.st) THEN parse_error(cc.st)
            ELSE built(advance(cc.st, 1),
                       normalize_ranges(IF cc.st.m_ignore_case THEN fold_ranges(cc.ranges)
                                        ELSE cc.ranges),
                       cc.ctypes,
                       IF cc.st.m_ignore_case THEN fold_excluded(cc.excluded)
                       ELSE cc.excluded)
    IN parsed(class_items([st |-> IF negative THEN advance(st, 1) ELSE st,
                           ranges |-> <<>>, excluded |-> <<>>, ctypes |-> <<>>]))

\* A matcher closure applied to a code point.
matches(m, c) ==
    LET \* it is std::lower_bound: the first range whose max is not below cp
        found(cp, it) ==
            \/ (it <= Len(m.ranges) /\ m.ranges[it].min <= cp)
            \/ (\E i \in 1..Len(m.ctypes) :
                    iswctype(cp, m.ctypes[i].ctype) = m.ctypes[i].positive)
            \/ (m.excluded # <<>> /\ \A i \in 1..Len(m.excluded) : m.excluded[i] # cp)
        lower_bound(cp) == Cardinality({i \in 1..Len(m.ranges) : m.ranges[i].max < cp}) + 1
        class(cp) == found(cp, lower_bound(cp)) # m.negative
    IN IF m.kind = "escape"
       THEN ((m.ctype # "" /\ iswctype(c, m.ctype))
             \/ (\E i \in 1..Len(m.chars) : m.chars[i] = c)) # m.neg
       ELSE class(IF m.ignore_case THEN to_lower(c) ELSE c)

(***************************************************************************)
(* The recursive descent: disjunction, alternative, term, assertion, atom. *)
(***************************************************************************)
RECURSIVE disjunction(_, _), alternatives(_), alternative(_, _), terms(_), term(_),
          term_atom(_), term_quantifier(_), assertion(_), atom(_)

\* The prefix of a lookaround at the cursor, "" when there is none.
lookaround_op(st) ==
    IF accepts(st, <<40, 63, 61>>) THEN "LookAhead"
    ELSE IF accepts(st, <<40, 63, 33>>) THEN "NegativeLookAhead"
    ELSE IF accepts(st, <<40, 63, 60, 61>>) THEN "LookBehind"
    ELSE IF accepts(st, <<40, 63, 60, 33>>) THEN "NegativeLookBehind"
    ELSE ""

lookaround_prefix_size(op) == IF op \in {"LookAhead", "NegativeLookAhead"} THEN 3 ELSE 4

\* if (at_end() or *m_pos++ != ')') parse_error("unclosed parenthesis")
close_parenthesis(st) ==
    IF at_end(st) THEN parse_error(st)
    ELSE IF peek(st) # 41 THEN parse_error(advance(st, 1))
    ELSE advance(st, 1)

disjunction(st, capture) ==
    LET s1 == new_node(st, "Alternation", NoValue)
        index == s1.ret
        closed(s2) == IF s2.err THEN s2 ELSE close_node(s2, index)
    IN IF s1.err THEN s1
       ELSE closed(alternatives([s1 EXCEPT !.nodes[index + 1].value = capture]))

\* The loop of disjunction: alternatives separated by '|'.
alternatives(st) ==
    LET separated(s1) ==
            IF s1.err THEN s1
            ELSE IF at_end(s1) \/ peek(s1) # 124 THEN s1
            ELSE alternatives(advance(s1, 1))
    IN separated(alternative(st, "Sequence"))

alternative(st, op) ==
    LET s1 == new_node(st, op, NoValue)
        index == s1.ret
        closed(s2) == IF s2.err THEN s2 ELSE close_node(s2, index)
    IN IF s1.err THEN s1 ELSE closed(terms(s1))

\* while (auto t = term()) {}
terms(st) ==
    LET again(s1) == IF s1.err \/ s1.ret = NoNode THEN s1 ELSE terms(s1)
    IN again(term(st))

term(st) == term_atom(assertion(modifiers(st)))

\* term() from the return of assertion() on.
term_atom(s2) ==
    IF s2.err \/ s2.ret # NoNode THEN s2 ELSE term_quantifier(atom(s2))

\* term() from the return of atom() on.
term_quantifier(s3) ==
    LET node == s3.ret
        quantified(s4) ==
            IF s4.err THEN s4
            ELSE [s4 EXCEPT !.nodes[node + 1].quantifier = s4.quant, !.ret = node]
    IN IF s3.err \/ s3.ret = NoNode THEN s3 ELSE quantified(quantifier(s3))

\* The assertion that starts with a backslash and the character e.
escaped_assertion(st, e) ==
    IF e = 98 THEN new_node(advance(st, 2), "WordBoundary", NoValue)
    ELSE IF e = 66 THEN new_node(advance(st, 2), "NotWordBoundary", NoValue)
    ELSE IF e = 65 THEN new_node(advance(st, 2), "SubjectBegin", NoValue)
    ELSE IF e = 122 THEN new_node(advance(st, 2), "SubjectEnd", NoValue)
    ELSE IF e = 75 THEN new_node(advance(st, 2), "ResetStart", NoValue)
    ELSE no_node(st)

assertion(st) ==
    LET op == lookaround_op(st)
        validated(s2, lookaround) ==
            IF s2.err THEN s2 ELSE validate_lookaround(s2, lookaround)
        parsed(s1) == IF s1.err THEN s1 ELSE validated(close_parenthesis(s1), s1.ret)
    IN IF at_end(st) THEN no_node(st)
       ELSE IF peek(st) = 94 THEN new_node(advance(st, 1), "LineStart", NoValue)
       ELSE IF peek(st) = 36 THEN new_node(advance(st, 1), "LineEnd", NoValue)
       ELSE IF peek(st) = 92 THEN
            IF st.m_pos + 1 > Len(st.m_regex) THEN no_node(st)
            ELSE escaped_assertion(st, peek_at(st, 1))
       ELSE IF peek(st) = 40 /\ op # ""
       THEN parsed(alternative(advance(st, lookaround_prefix_size(op)), op))
       ELSE no_node(st)

atom(st) ==
    LET s1 == advance(st, 1)
        capture == ~accepts(s1, <<63, 58>>)
        closed(s4, content) == IF s4.err THEN s4 ELSE [s4 EXCEPT !.ret = content]
        parsed(s3) == IF s3.err THEN s3 ELSE closed(close_parenthesis(s3), s3.ret)
    IN IF at_end(st) THEN no_node(st)
       ELSE IF peek(st) = 46 THEN new_node(s1, "AnyChar", NoValue)
       ELSE IF peek(st) = 40
       THEN parsed(disjunction(IF capture THEN [s1 EXCEPT !.capture_count = @ + 1]
                               ELSE advance(s1, 2),
                               IF capture THEN s1.capture_count ELSE NoValue))
       ELSE IF peek(st) = 92 THEN atom_escape(s1)
       ELSE IF peek(st) = 91 THEN character_class(s1)
       ELSE IF peek(st) = 124 \/ peek(st) = 41 THEN no_node(st)
       ELSE IF peek(st) \in {94, 36, 46, 42, 43, 63, 91, 93, 123, 125}
       THEN parse_error(st)
       ELSE new_node(s1, "Literal", peek(st))

\* The value m_ignore_case has when a RegexParser is constructed; leftover is
\* the mode the previously constructed parser ended with.
static_ignore_case(leftover) == leftover

initial_ignore_case(leftover) == FALSE

\* RegexParser with a capture count that starts at 0 instead of 1.
captures_counted_from_zero(re, leftover) ==
    disjunction([m_regex |-> re, m_pos |-> 1, nodes |-> <<>>, capture_count |-> 0,
                 matchers |-> <<>>, m_ignore_case |-> initial_ignore_case(leftover),
                 err |-> FALSE, ub |-> FALSE, ret |-> NoNode, quant |-> QuantifierOne],
                0)

\* RegexParser{re}: the parser after its constructor ran.
RegexParser(re, leftover) ==
    disjunction([m_regex |-> re, m_pos |-> 1, nodes |-> <<>>, capture_count |-> 1,
                 matchers |-> <<>>, m_ignore_case |-> initial_ignore_case(leftover),
                 err |-> FALSE, ub |-> FALSE, ret |-> NoNode, quant |-> QuantifierOne],
                0)

(***************************************************************************)
(* RegexCompiler.  The compiler is a record cs: the program being written  *)
(* (instructions, lookarounds), err (a regex_error was thrown) and ret,    *)
(* the value returned by the last call.  pr is the ParsedRegex and fl the  *)
(* compilation's [no_subs, forward].                                       *)
(***************************************************************************)
max_instructions == 65535

search_prefix_size == 3

Instruction(op, param) == [op |-> op, param |-> param]

push_inst(cs, op, param) ==
    LET res == Len(cs.instructions) IN
    IF cs.err THEN cs
    ELSE IF res > max_instructions THEN [cs EXCEPT !.err = TRUE]
    ELSE [cs EXCEPT !.instructions = Append(@, Instruction(op, param)), !.ret = res]

params_never_set(cs, offsets, target) == cs

\* m_program.instructions[offset].param = target, for every offset.
set_params(cs, offsets, target) ==
    IF offsets = <<>> THEN cs
    ELSE
    [cs EXCEPT !.instructions =
        [i \in 1..Len(@) |->
            IF \E j \in 1..Len(offsets) : offsets[j] = i - 1
            THEN Instruction(@[i].op, target) ELSE @[i]]]

write_search_prefix(cs) ==
    push_inst(push_inst(push_inst(cs, "Split_PrioritizeChild", search_prefix_size),
                        "FindNextStart", 0),
              "Split_PrioritizeParent", 1)

\* The table entry push_lookaround writes for one child of a lookaround.
lookaround_entry(node, ignore_case) ==
    IF node.op = "Literal" THEN (IF ignore_case THEN to_lower(node.value) ELSE node.value)
    ELSE IF node.op = "AnyChar" THEN 61440
    ELSE 983041 + node.value

push_lookaround(cs, pr, index, reversed, ignore_case) ==
    LET res == Len(cs.lookarounds)
        kids == IF reversed THEN ChildrenReverse(pr.nodes, index)
                ELSE Children(pr.nodes, index)
        entries == [i \in 1..Len(kids) |->
                        lookaround_entry(NodeAt(pr.nodes, kids[i]), ignore_case)]
    IN [cs EXCEPT !.lookarounds = @ \o entries \o <<-1>>, !.ret = res]

\* The opcode of a lookaround node for the direction of the compilation.
lookaround_inst(op, forward, ignore_case) ==
    LET ahead == op \in {"LookAhead", "NegativeLookAhead"}
        negative == op \in {"NegativeLookAhead", "NegativeLookBehind"}
    IN IF ahead = forward
       THEN (IF negative
             THEN (IF ignore_case THEN "NegativeLookAhead_IgnoreCase" ELSE "NegativeLookAhead")
             ELSE (IF ignore_case THEN "LookAhead_IgnoreCase" ELSE "LookAhead"))
       ELSE (IF negative
             THEN (IF ignore_case THEN "NegativeLookBehind_IgnoreCase" ELSE "NegativeLookBehind")
             ELSE (IF ignore_case THEN "LookBehind_IgnoreCase" ELSE "LookBehind"))

\* The operand of the Save that opens (closing = FALSE) or closes a node.
backward_save_unswapped(value, forward, closing) == value * 2 + (IF closing THEN 1 ELSE 0)

save_index_one_based(value, forward, closing) ==
    (value + 1) * 2 + (IF closing = forward THEN 1 ELSE 0)

closing_save_as_opening(value, forward, closing) == value * 2 + (IF forward THEN 0 ELSE 1)

save_index(value, forward, closing) ==
    value * 2 + (IF closing THEN (IF forward THEN 1 ELSE 0) ELSE (IF forward THEN 0 ELSE 1))

\* The order in which a Sequence's children are compiled.
sequence_never_reversed(nodes, index, forward) == Children(nodes, index)

sequence_order(nodes, index, forward) ==
    IF forward THEN Children(nodes, index) ELSE ChildrenReverse(nodes, index)

\* The split written for a quantifier: before an optional copy of the body
\* (tail = FALSE) or after the body of an unbounded repeat (tail = TRUE).
quantifier_split(greedy, tail) ==
    IF tail
    THEN (IF greedy THEN "Split_PrioritizeChild" ELSE "Split_PrioritizeParent")
    ELSE (IF greedy THEN "Split_PrioritizeParent" ELSE "Split_PrioritizeChild")

RECURSIVE compile_node(_, _, _, _), compile_node_inner(_, _, _, _),
          compile_children(_, _, _, _), compile_branches(_, _, _, _, _, _, _),
          compile_min_copies(_, _, _, _, _, _), compile_optional_copies(_, _, _, _, _, _, _)

\* compile_node on each child of a Sequence, in the order given.
compile_children(cs, pr, fl, kids) ==
    CASE cs.err -> cs
      [] kids = <<>> -> cs
      [] OTHER -> compile_children(compile_node(cs, pr, fl, Head(kids)), pr, fl, Tail(kids))

\* The second walk over the children of an Alternation: kids[k] is compiled,
\* the split at split_pos is pointed at it unless it is the first child, and
\* a Jump follows every child but the last; after the last child the jumps
\* are pointed past it.
compile_branches(cs, pr, fl, kids, k, split_pos, jumps) ==
    LET last == k = Len(kids)
        \* the child compiled at c1.ret, then the split pointed at it
        pointed(c1) == IF k # 1 THEN set_params(c1, <<split_pos>>, c1.ret) ELSE c1
        jumped(c2) == IF last THEN c2 ELSE push_inst(c2, "Jump", 0)
        continued(c3) ==
            compile_branches(c3, pr, fl, kids, k + 1,
                             IF k # 1 THEN split_pos + 1 ELSE split_pos,
                             IF last \/ c3.err THEN jumps ELSE Append(jumps, c3.ret))
        \* a regex_error thrown in the child leaves the walk
        compiled(c0) == IF c0.err THEN c0 ELSE continued(jumped(pointed(c0)))
    IN CASE cs.err -> cs
         [] k > Len(kids) -> set_params(cs, jumps, Len(cs.instructions))
         [] OTHER -> compiled(compile_node(cs, pr, fl, kids[k]))

\* push_inst(Split_PrioritizeParent) once for every child but the first.
RECURSIVE push_splits(_, _)
push_splits(cs, n) ==
    IF n <= 0 \/ cs.err THEN cs
    ELSE push_splits(push_inst(cs, "Split_PrioritizeParent", 0), n - 1)

compile_node_inner(cs, pr, fl, index) ==
    LET node == NodeAt(pr.nodes, index)
        start_pos == Len(cs.instructions)
        ignore_case == node.ignore_case
        save == /\ node.op \in {"Alternation", "Sequence"}
                /\ (node.value = 0 \/ (node.value # NoValue /\ ~fl.no_subs))
        c1 == IF save THEN push_inst(cs, "Save", save_index(node.value, fl.forward, FALSE))
              ELSE cs
        looked(c2) == push_inst(c2, lookaround_inst(node.op, fl.forward, ignore_case), c2.ret)
        closed(body) ==
            IF save THEN push_inst(body, "Save", save_index(node.value, fl.forward, TRUE))
            ELSE body
        returned(c3) == IF c3.err THEN c3 ELSE [c3 EXCEPT !.ret = start_pos]
        \* a regex_error thrown in the body leaves the function
        inner(body) == IF body.err THEN body ELSE returned(closed(body))
    IN inner((
        CASE node.op = "Literal" ->
                IF ignore_case THEN push_inst(c1, "Literal_IgnoreCase", to_lower(node.value))
                ELSE push_inst(c1, "Literal", node.value)
          [] node.op = "AnyChar" -> push_inst(c1, "AnyChar", 0)
          [] node.op = "Matcher" -> push_inst(c1, "Matcher", node.value)
          [] node.op = "Sequence" ->
                compile_children(c1, pr, fl, sequence_order(pr.nodes, index, fl.forward))
          [] node.op = "Alternation" ->
                compile_branches(
                    push_splits(c1, Len(Children(pr.nodes, index)) - 1),
                    pr, fl, Children(pr.nodes, index), 1, Len(c1.instructions), <<>>)
          [] node.op \in {"LookAhead", "NegativeLookAhead",
                          "LookBehind", "NegativeLookBehind"} ->
                looked(push_lookaround(c1, pr, index,
                                       node.op \in {"LookBehind", "NegativeLookBehind"},
                                       ignore_case))
          [] node.op = "LineStart" ->
                push_inst(c1, IF fl.forward THEN "LineStart" ELSE "LineEnd", 0)
          [] node.op = "LineEnd" ->
                push_inst(c1, IF fl.forward THEN "LineEnd" ELSE "LineStart", 0)
          [] node.op = "WordBoundary" -> push_inst(c1, "WordBoundary", 0)
          [] node.op = "NotWordBoundary" -> push_inst(c1, "NotWordBoundary", 0)
          [] node.op = "SubjectBegin" ->
                push_inst(c1, IF fl.forward THEN "SubjectBegin" ELSE "SubjectEnd", 0)
          [] node.op = "SubjectEnd" ->
                push_inst(c1, IF fl.forward THEN "SubjectEnd" ELSE "SubjectBegin", 0)
          [] node.op = "ResetStart" -> push_inst(c1, "Save", 0)))

\* for (int i = 1; i < quantifier.min; ++i) inner_pos = compile_node_inner(index)
\* The iterations i .. min - 1, one after the other; they are split in two
\* halves to keep the evaluation shallow.
compile_min_copies(cs, pr, fl, index, i, min) ==
    CASE cs.err -> cs
      [] i + 1 < min ->
            compile_min_copies(
                compile_min_copies(cs, pr, fl, index, i, (i + min) \div 2),
                pr, fl, index, (i + min) \div 2, min)
      [] i + 1 = min -> compile_node_inner(cs, pr, fl, index)
      [] OTHER -> cs

\* for (i = max(1, min); i < max; ++i): a split, then the body.  Returns
\* [cs, goto_ends]; the split is written at Len(cs.instructions).
compile_optional_copies(cs, pr, fl, index, i, max, goto_ends) ==
    IF i >= max \/ cs.err THEN [cs |-> cs, goto_ends |-> goto_ends]
    ELSE compile_optional_copies(
            compile_node_inner(
                push_inst(cs, quantifier_split(NodeAt(pr.nodes, index).quantifier.greedy,
                                               FALSE), 0),
                pr, fl, index),
            pr, fl, index, i + 1, max, Append(goto_ends, Len(cs.instructions)))

compile_node(cs, pr, fl, index) ==
    LET q == NodeAt(pr.nodes, index).quantifier
        start_pos == Len(cs.instructions)
        c1 == IF allows_none(q) THEN push_inst(cs, quantifier_split(q.greedy, FALSE), 0)
              ELSE cs
        goto_ends == IF allows_none(q) THEN <<start_pos>> ELSE <<>>
        \* c2.ret is inner_pos, the position of the last copy compiled
        repeated(c2) ==
            IF c2.err THEN [cs |-> c2, goto_ends |-> goto_ends]
            ELSE IF allows_infinite_repeat(q)
            THEN [cs |-> push_inst(c2, quantifier_split(q.greedy, TRUE), c2.ret),
                  goto_ends |-> goto_ends]
            ELSE compile_optional_copies(c2, pr, fl, index,
                                         IF q.min > 1 THEN q.min ELSE 1, q.max, goto_ends)
        finished(r) ==
            IF r.cs.err THEN r.cs
            ELSE [set_params(r.cs, r.goto_ends, Len(r.cs.instructions))
                    EXCEPT !.ret = start_pos]
        \* a regex_error thrown in a copy of the body leaves the function
        copied(c2) == IF c2.err THEN c2 ELSE finished(repeated(c2))
        first(c0) == IF c0.err THEN c0
                     ELSE copied(compile_min_copies(c0, pr, fl, index, 1, q.min))
    IN first(compile_node_inner(c1, pr, fl, index))

(***************************************************************************)
(* Start characters.  A StartChars map is modelled by the set of indices   *)
(* whose entry was set to true; its entries are 0 .. StartChars_other.     *)
(***************************************************************************)
StartChars_count == 255

StartChars_other == 255

\* The indices compute_start_chars sets for a Literal node.
literal_start_chars(node) ==
    IF node.value < StartChars_count
    THEN (IF node.ignore_case THEN {to_lower(node.value), to_upper(node.value)}
          ELSE {node.value})
    ELSE {StartChars_other}

RECURSIVE compute_start_chars(_, _, _, _), sequence_start_chars(_, _, _, _),
          alternation_start_chars(_, _, _, _, _)

\* Returns [map, ret]: ret is TRUE when the node may consume no character.
compute_start_chars(pr, fl, index, map) ==
    LET node == NodeAt(pr.nodes, index) IN
    CASE node.op = "Literal" ->
            [map |-> map \cup literal_start_chars(node),
             ret |-> allows_none(node.quantifier)]
      [] node.op = "AnyChar" ->
            [map |-> map \cup (0..StartChars_other), ret |-> allows_none(node.quantifier)]
      [] node.op = "Matcher" ->
            [map |-> map \cup {c \in 0..(StartChars_count - 1) :
                                    matches(pr.matchers[node.value + 1], c)}
                         \cup {StartChars_other},
             ret |-> allows_none(node.quantifier)]
      [] node.op = "Sequence" ->
            LET r == sequence_start_chars(pr, fl, sequence_order(pr.nodes, index, fl.forward), map)
            IN [map |-> r.map, ret |-> r.ret \/ allows_none(node.quantifier)]
      [] node.op = "Alternation" ->
            alternation_start_chars(pr, fl, Children(pr.nodes, index), map,
                                    ~allows_none(node.quantifier))
      [] OTHER -> [map |-> map, ret |-> TRUE]

\* for_each_child over a Sequence: stops at the first child that consumes.
sequence_start_chars(pr, fl, kids, map) ==
    IF kids = <<>> THEN [map |-> map, ret |-> TRUE]
    ELSE LET r == compute_start_chars(pr, fl, Head(kids), map) IN
         IF ~r.ret THEN [map |-> r.map, ret |-> FALSE]
         ELSE sequence_start_chars(pr, fl, Tail(kids), r.map)

\* for_each_child over an Alternation: every branch is looked at.
alternation_start_chars(pr, fl, kids, map, all_consumed) ==
    IF kids = <<>> THEN [map |-> map, ret |-> ~all_consumed]
    ELSE LET r == compute_start_chars(pr, fl, Head(kids), map) IN
         alternation_start_chars(pr, fl, Tail(kids), r.map, all_consumed /\ ~r.ret)

\* The absent start_chars (nullptr).
NoStartChars == [present |-> FALSE, map |-> {}]

start_chars_always_kept(pr, fl) ==
    [present |-> TRUE, map |-> compute_start_chars(pr, fl, 0, {}).map]

\* compute_start_chars(): the map, or nullptr.
start_chars_of(pr, fl) ==
    LET r == compute_start_chars(pr, fl, 0, {}) IN
    IF r.ret THEN NoStartChars
    ELSE IF (0..StartChars_other) \subseteq r.map THEN NoStartChars
    ELSE [present |-> TRUE, map |-> r.map]

\* RegexCompiler{parsed_regex, flags, direction}.get_compiled_regex()
RegexCompiler(pr, no_subs, direction) ==
    LET fl == [no_subs |-> no_subs, forward |-> direction = "Forward"]
        c0 == [instructions |-> <<>>, lookarounds |-> <<>>, err |-> FALSE, ret |-> 0]
        m_program(c2) ==
            [err |-> c2.err,
             instructions |-> c2.instructions,
             lookarounds |-> c2.lookarounds,
             matchers |-> pr.matchers,
             save_count |-> pr.capture_count * 2,
             direction |-> direction,
             start_chars |-> IF c2.err THEN NoStartChars ELSE start_chars_of(pr, fl)]
    IN m_program(push_inst(compile_node(write_search_prefix(c0), pr, fl, 0), "Match", 0))

\* The program of a pattern that did not parse or compile: a regex_error.
RegexError ==
    [err |-> TRUE, instructions |-> <<>>, lookarounds |-> <<>>, matchers |-> <<>>,
     save_count |-> 0, direction |-> "Forward", start_chars |-> NoStartChars]

\* compile_regex(re, flags, direction); leftover is described at
\* initial_ignore_case.
compile_regex(re, no_subs, direction, leftover) ==
    LET compiled(c) == IF c.err THEN RegexError ELSE c
        parsed(st) ==
            IF st.err THEN RegexError
            ELSE compiled(RegexCompiler([nodes |-> st.nodes,
                                         capture_count |-> st.capture_count,
                                         matchers |-> st.matchers], no_subs, direction))
    IN parsed(RegexParser(re, leftover))

(***************************************************************************)
(* ThreadedRegexVM (spec.md section 4.3).  Positions are offsets into the  *)
(* subject, 0 .. Len(subject); a Backward program starts at the end of the *)
(* subject and moves towards its beginning.                                *)
(***************************************************************************)
\* The value of a capture slot that no Save has written.
NoPos == -1

\* The positions a direction starts from and ends at.
begin_pos(subj, direction) == IF direction = "Forward" THEN 0 ELSE Len(subj)

end_pos(subj, direction) == IF direction = "Forward" THEN Len(subj) ELSE 0

\* One code point further in the direction, and the code point passed.
next_pos(p, direction) == IF direction = "Forward" THEN p + 1 ELSE p - 1

char_at(subj, p, direction) == IF direction = "Forward" THEN subj[p + 1] ELSE subj[p]

opposite(direction) == IF direction = "Forward" THEN "Backward" ELSE "Forward"

\* to_next_start: the first position from p on whose code point the map permits.
RECURSIVE to_next_start(_, _, _, _)
to_next_start(subj, p, direction, start_chars) ==
    IF ~start_chars.present \/ p = end_pos(subj, direction) THEN p
    ELSE LET cp == char_at(subj, p, direction)
             entry == IF cp < StartChars_other THEN cp ELSE StartChars_other
         IN IF entry \in start_chars.map THEN p
            ELSE to_next_start(subj, next_pos(p, direction), direction, start_chars)

\* A lookaround: the table entries from index on against the code points from
\* p on in the direction look.
RECURSIVE lookaround(_, _, _, _, _, _)
lookaround(prog, subj, index, p, look, ignore_case) ==
    LET entry == prog.lookarounds[index + 1]
        cp == char_at(subj, p, look)
    IN IF entry = -1 THEN TRUE
       ELSE IF p = end_pos(subj, look) THEN FALSE
       ELSE /\ IF entry = 61440 THEN TRUE
               ELSE IF entry > 983040
               THEN matches(prog.matchers[entry - 983041 + 1], cp)
               ELSE IF ignore_case THEN entry = to_lower(cp)
               ELSE entry = cp
            /\ lookaround(prog, subj, index + 1, next_pos(p, look), look, ignore_case)

is_line_start(subj, p, direction) ==
    \/ p = begin_pos(subj, direction)
    \/ char_at(subj, p, opposite(direction)) = 10

is_line_end(subj, p, direction) ==
    \/ p = end_pos(subj, direction)
    \/ char_at(subj, p, direction) = 10

is_word_boundary(subj, p) ==
    \/ p = 0
    \/ p = Len(subj)
    \/ is_word(subj[p]) # is_word(subj[p + 1])

ConsumingOps == {"Literal", "Literal_IgnoreCase", "AnyChar", "Matcher"}

\* Whether a consuming instruction accepts the code point at p.
consumes(prog, subj, inst, p) ==
    /\ p # end_pos(subj, prog.direction)
    /\ LET cp == char_at(subj, p, prog.direction) IN
       CASE inst.op = "Literal" -> inst.param = cp
         [] inst.op = "Literal_IgnoreCase" -> inst.param = to_lower(cp)
         [] inst.op = "AnyChar" -> TRUE
         [] inst.op = "Matcher" -> matches(prog.matchers[inst.param + 1], cp)

\* Whether an assertion instruction holds at p.
AssertionOps == {"LineStart", "LineEnd", "WordBoundary", "NotWordBoundary",
                 "SubjectBegin", "SubjectEnd",
                 "LookAhead", "NegativeLookAhead", "LookBehind", "NegativeLookBehind",
                 "LookAhead_IgnoreCase", "NegativeLookAhead_IgnoreCase",
                 "LookBehind_IgnoreCase", "NegativeLookBehind_IgnoreCase"}

holds_at(prog, subj, inst, p) ==
    LET d == prog.direction
        behind == inst.op \in {"LookBehind", "NegativeLookBehind",
                               "LookBehind_IgnoreCase", "NegativeLookBehind_IgnoreCase"}
        negative == inst.op \in {"NegativeLookAhead", "NegativeLookBehind",
                                 "NegativeLookAhead_IgnoreCase",
                                 "NegativeLookBehind_IgnoreCase"}
        ignore_case == inst.op \in {"LookAhead_IgnoreCase", "NegativeLookAhead_IgnoreCase",
                                    "LookBehind_IgnoreCase",
                                    "NegativeLookBehind_IgnoreCase"}
    IN CASE inst.op = "LineStart" -> is_line_start(subj, p, d)
         [] inst.op = "LineEnd" -> is_line_end(subj, p, d)
         [] inst.op = "WordBoundary" -> is_word_boundary(subj, p)
         [] inst.op = "NotWordBoundary" -> ~is_word_boundary(subj, p)
         [] inst.op = "SubjectBegin" -> p = begin_pos(subj, d)
         [] inst.op = "SubjectEnd" -> p = end_pos(subj, d)
         [] OTHER ->
              \* the lookarounds: a negative one holds when the lookaround fails
              lookaround(prog, subj, inst.param, p,
                         IF behind THEN opposite(d) ELSE d, ignore_case) # negative

\* A thread: the index of its next instruction and its capture array.
Thread(inst, saves) == [inst |-> inst, saves |-> saves]

NoThread == Thread(-1, <<>>)

\* The duplicate suppression: the instruction was already scheduled at this
\* position.
never_scheduled(inst, scheduled_set) == FALSE

already_scheduled(inst, scheduled_set) == inst \in scheduled_set

\* step(): one instruction of thread th at position p.  The result names what
\* became of the thread (Continue: it goes on at the same position) and the
\* thread it pushed on the stack of current threads, if any.
step(prog, subj, th, p) ==
    LET inst == prog.instructions[th.inst + 1]
        goes_on == [kind |-> "Continue", thread |-> Thread(th.inst + 1, th.saves),
                    push |-> <<>>]
        fails == [kind |-> "Failed", thread |-> NoThread, push |-> <<>>]
    IN CASE inst.op \in ConsumingOps ->
              IF consumes(prog, subj, inst, p)
              THEN [kind |-> "Consumed", thread |-> Thread(th.inst + 1, th.saves),
                    push |-> <<>>]
              ELSE fails
         [] inst.op \in AssertionOps ->
              IF holds_at(prog, subj, inst, p) THEN goes_on ELSE fails
         [] inst.op = "Jump" ->
              [goes_on EXCEPT !.thread = Thread(inst.param, th.saves)]
         [] inst.op = "Split_PrioritizeParent" ->
              [goes_on EXCEPT !.push = <<Thread(inst.param, th.saves)>>]
         [] inst.op = "Split_PrioritizeChild" ->
              [goes_on EXCEPT !.thread = Thread(inst.param, th.saves),
                              !.push = <<Thread(th.inst + 1, th.saves)>>]
         [] inst.op = "Save" ->
              [goes_on EXCEPT !.thread =
                  Thread(th.inst + 1, [th.saves EXCEPT ![inst.param + 1] = p])]
         [] inst.op = "FindNextStart" ->
              [kind |-> "FindNextStart", thread |-> Thread(th.inst + 1, th.saves),
               push |-> <<>>]
         [] inst.op = "Match" ->
              [kind |-> "Matched", thread |-> th, push |-> <<>>]

\* The first thread of exec(): the search prefix is skipped without Search.
first_thread(prog, search) ==
    Thread(IF search THEN 0 ELSE search_prefix_size,
           [i \in 1..prog.save_count |-> NoPos])

(***************************************************************************)
(* ConstexprVector<T, capacity> (meta.hh).  A vector is [m_size, m_data];  *)
(* m_data has the indices 0 .. capacity - 1 and T is 0 .. MaxVectorValue.  *)
(***************************************************************************)
capacity == 4

MaxVectorValue == 2

VectorValues == 0..MaxVectorValue

\* ConstexprVector(items); T m_data[capacity] = {} leaves the rest at T{}.
ConstexprVector(items) ==
    [m_size |-> Len(items),
     m_data |-> [i \in 0..(capacity - 1) |-> IF i < Len(items) THEN items[i + 1] ELSE 0]]

\* for (int i = n; i < m_size; ++i) m_data[i] = val
RECURSIVE fill(_, _, _, _)
fill(data, i, size, val) ==
    IF i < size THEN fill([data EXCEPT ![i] = val], i + 1, size, val) ELSE data

\* resize(n, val) of the vector v: [thrown, m_size, m_data].
resize(v, n, val) ==
    IF n >= capacity THEN [thrown |-> TRUE, m_size |-> v.m_size, m_data |-> v.m_data]
    ELSE [thrown |-> FALSE,
          m_size |-> n,
          m_data |-> IF n > v.m_size THEN fill(v.m_data, n, v.m_size, val)
                     ELSE v.m_data]

\* The value of last_resize when the last operation was not a resize.
NoResize == [n |-> -1, val |-> 0, thrown |-> FALSE, m_size |-> 0, m_data |-> <<>>]

(***************************************************************************)
(* The state: a session is the sequence of compilations and executions a   *)
(* process makes; run is the one in progress.  m_size and m_data are a     *)
(* ConstexprVector; last_resize holds the arguments of the last resize and *)
(* the vector it was called on.                                            *)
(***************************************************************************)
VARIABLES session, run, phase, m_ignore_case, program, pos, thread,
          current_threads, next_threads, scheduled, dispatched, steps,
          find_next_start, found_match, captures, matched, log,
          m_size, m_data, last_resize

vars == <<session, run, phase, m_ignore_case, program, pos, thread,
          current_threads, next_threads, scheduled, dispatched, steps,
          find_next_start, found_match, captures, matched, log,
          m_size, m_data, last_resize>>

vector_vars == <<m_size, m_data, last_resize>>

vm_vars == <<pos, thread, current_threads, next_threads, scheduled, dispatched,
             steps, find_next_start, found_match>>

\* One run: compile re, then execute the program on subject.
Run(re, subject, no_subs, direction, search, any_match) ==
    [re |-> re, subject |-> subject, no_subs |-> no_subs, direction |-> direction,
     search |-> search, any_match |-> any_match]

cur == session[run]

\* The record a finished run leaves.
Outcome(r, prog, res, caps) ==
    [re |-> r.re, subject |-> r.subject, no_subs |-> r.no_subs,
     direction |-> r.direction, search |-> r.search, any_match |-> r.any_match,
     program |-> prog, matched |-> res, captures |-> caps]

\* The parser's case mode when the parse of re ends.
parsed_ignore_case(re, leftover) == RegexParser(re, leftover).m_ignore_case

\* The vector constructed from items.
InitVectorWith(items) ==
    /\ m_size = ConstexprVector(items).m_size
    /\ m_data = ConstexprVector(items).m_data
    /\ last_resize = NoResize

InitWith(sessions) ==
    /\ InitVectorWith(<<>>)
    /\ session \in sessions
    /\ run = 1
    /\ phase = "idle"
    /\ m_ignore_case = FALSE
    /\ program = RegexError
    /\ pos = 0
    /\ thread = NoThread
    /\ current_threads = <<>>
    /\ next_threads = <<>>
    /\ scheduled = {}
    /\ dispatched = <<>>
    /\ steps = 0
    /\ find_next_start = FALSE
    /\ found_match = FALSE
    /\ captures = <<>>
    /\ matched = FALSE
    /\ log = <<>>

\* compile_regex(re, flags, direction)
CompileRegex ==
    /\ phase = "idle"
    /\ program' = compile_regex(cur.re, cur.no_subs, cur.direction, m_ignore_case)
    /\ m_ignore_case' = parsed_ignore_case(cur.re, m_ignore_case)
    /\ phase' = "compiled"
    /\ UNCHANGED <<vector_vars, session, run, vm_vars, captures, matched, log>>

\* exec(begin, end, flags): a regex_error of the compilation ends the run.
Exec ==
    /\ phase = "compiled"
    /\ IF program.err
       THEN /\ phase' = "done"
            /\ matched' = FALSE
            /\ captures' = <<>>
            /\ log' = Append(log, Outcome(cur, program, FALSE, <<>>))
            /\ UNCHANGED vm_vars
       ELSE /\ phase' = "exec"
            /\ pos' = IF cur.search
                      THEN to_next_start(cur.subject, begin_pos(cur.subject, cur.direction),
                                         cur.direction, program.start_chars)
                      ELSE begin_pos(cur.subject, cur.direction)
            /\ thread' = NoThread
            /\ current_threads' = <<first_thread(program, cur.search)>>
            /\ next_threads' = <<>>
            /\ scheduled' = {}
            /\ dispatched' = <<>>
            /\ steps' = 0
            /\ find_next_start' = FALSE
            /\ found_match' = FALSE
            /\ captures' = <<>>
            /\ matched' = FALSE
            /\ UNCHANGED log
    /\ UNCHANGED <<vector_vars, session, run, m_ignore_case, program>>

\* exec returns res with the capture array caps.
Return(res, caps) ==
    /\ phase' = "done"
    /\ matched' = res
    /\ captures' = caps
    /\ log' = Append(log, Outcome(cur, program, res, caps))

\* The thread of highest priority is taken off the stack of current threads.
NextThread ==
    /\ phase = "exec"
    /\ thread = NoThread
    /\ current_threads # <<>>
    /\ thread' = current_threads[Len(current_threads)]
    /\ current_threads' = SubSeq(current_threads, 1, Len(current_threads) - 1)
    /\ steps' = steps + 1
    /\ UNCHANGED <<vector_vars, session, run, phase, m_ignore_case, program, pos,
                   next_threads, scheduled, dispatched, find_next_start, found_match,
                   captures, matched, log>>

\* The running thread executes one instruction.
Step ==
    /\ phase = "exec"
    /\ thread # NoThread
    /\ steps' = steps + 1
    /\ IF already_scheduled(thread.inst, scheduled)
       THEN /\ thread' = NoThread
            /\ UNCHANGED <<phase, current_threads, next_threads, scheduled, dispatched,
                           find_next_start, found_match, captures, matched, log>>
       ELSE LET ended == pos = end_pos(cur.subject, cur.direction)
                stepped(r) ==
                  CASE r.kind = "Continue" ->
                         /\ thread' = r.thread
                         /\ current_threads' = current_threads \o r.push
                         /\ UNCHANGED <<phase, next_threads, find_next_start,
                                        found_match, captures, matched, log>>
                    [] r.kind = "Failed" ->
                         /\ thread' = NoThread
                         /\ UNCHANGED <<phase, current_threads, next_threads,
                                        find_next_start, found_match, captures,
                                        matched, log>>
                    [] r.kind = "Consumed" ->
                         /\ thread' = NoThread
                         /\ next_threads' = Append(next_threads, r.thread)
                         /\ UNCHANGED <<phase, current_threads, find_next_start,
                                        found_match, captures, matched, log>>
                    [] r.kind = "FindNextStart" ->
                         /\ thread' = NoThread
                         /\ next_threads' = Append(next_threads, r.thread)
                         /\ find_next_start' = TRUE
                         /\ UNCHANGED <<phase, current_threads, found_match, captures,
                                        matched, log>>
                    [] r.kind = "Matched" ->
                         IF ~ended /\ ~cur.search
                         THEN /\ thread' = NoThread
                              /\ UNCHANGED <<phase, current_threads, next_threads,
                                             find_next_start, found_match, captures,
                                             matched, log>>
                         ELSE IF ended \/ cur.any_match
                         THEN /\ Return(TRUE, thread.saves)
                              /\ thread' = NoThread
                              /\ UNCHANGED <<current_threads, next_threads,
                                             find_next_start, found_match>>
                         ELSE /\ found_match' = TRUE
                              /\ captures' = thread.saves
                              /\ thread' = NoThread
                              /\ current_threads' = <<>>
                              /\ UNCHANGED <<phase, next_threads, find_next_start,
                                             matched, log>>
            IN /\ scheduled' = scheduled \cup {thread.inst}
               /\ dispatched' = Append(dispatched, thread.inst)
               /\ stepped(step(program, cur.subject, thread, pos))
    /\ UNCHANGED <<vector_vars, session, run, m_ignore_case, program, pos>>

\* No thread is left at this position: exec returns, or moves on by one code
\* point, and further while only the search thread is alive and the start
\* characters rule the position out.
EndOfStep ==
    /\ phase = "exec"
    /\ thread = NoThread
    /\ current_threads = <<>>
    /\ IF pos = end_pos(cur.subject, cur.direction) \/ next_threads = <<>>
       THEN /\ Return(found_match, captures)
            /\ UNCHANGED vm_vars
       ELSE /\ current_threads' = Reverse(next_threads)
            /\ next_threads' = <<>>
            /\ pos' = IF find_next_start /\ Len(next_threads) = 1
                      THEN to_next_start(cur.subject, next_pos(pos, cur.direction),
                                         cur.direction, program.start_chars)
                      ELSE next_pos(pos, cur.direction)
            /\ scheduled' = {}
            /\ dispatched' = <<>>
            /\ find_next_start' = FALSE
            /\ steps' = steps + 1
            /\ UNCHANGED <<thread, found_match, phase, matched, captures, log>>
    /\ UNCHANGED <<vector_vars, session, run, m_ignore_case, program>>

\* The process goes on to its next compilation and execution.
Restart ==
    /\ phase = "done"
    /\ run < Len(session)
    /\ run' = run + 1
    /\ phase' = "idle"
    /\ UNCHANGED <<vector_vars, session, m_ignore_case, program, vm_vars, captures, matched, log>>

Next ==
    \/ CompileRegex
    \/ Exec
    \/ NextThread
    \/ Step
    \/ EndOfStep
    \/ Restart

(***************************************************************************)
(* The operations on the vector.                                           *)
(***************************************************************************)
regex_vars ==
    <<session, run, phase, m_ignore_case, program, vm_vars, captures, matched, log>>

\* resize(n, val)
Resize ==
    \E n \in 0..capacity, val \in VectorValues :
        /\ last_resize' = [n |-> n, val |-> val,
                           thrown |-> resize([m_size |-> m_size, m_data |-> m_data], n, val).thrown,
                           m_size |-> m_size, m_data |-> m_data]
        /\ m_size' = resize([m_size |-> m_size, m_data |-> m_data], n, val).m_size
        /\ m_data' = resize([m_size |-> m_size, m_data |-> m_data], n, val).m_data
        /\ UNCHANGED regex_vars

\* operator[](i) = val, for an element of the vector
Store ==
    \E i \in 0..(m_size - 1), val \in VectorValues :
        /\ m_data' = [m_data EXCEPT ![i] = val]
        /\ last_resize' = NoResize
        /\ UNCHANGED <<m_size, regex_vars>>

NextVector ==
    \/ Resize
    \/ Store

(***************************************************************************)
(* Sessions.  Every family of sessions below gives one specification; all  *)
(* of them share Next.                                                     *)
(***************************************************************************)
\* The texts of at most n characters over the code points of alphabet.
Texts(alphabet, n) == UNION {[1..k -> alphabet] : k \in 0..n}

\* The same pattern run on the same subject, Forward and then Backward.
Both(re, subject, search, any_match) ==
    <<Run(re, subject, FALSE, "Forward", search, any_match),
      Run(re, subject, FALSE, "Backward", search, any_match)>>

RECURSIVE Repeat(_, _)
Repeat(text, k) == IF k = 0 THEN <<>> ELSE text \o Repeat(text, k - 1)

Min(set) == CHOOSE x \in set : \A y \in set : x <= y

Max(set) == CHOOSE x \in set : \A y \in set : x >= y

\* Whether the capture group v has both of its slots written in caps.
participated(caps, v) == caps[2 * v + 1] # NoPos /\ caps[2 * v + 2] # NoPos

(***************************************************************************)
(* Alternations (b1)|(b2)|...|(bk) of literal branches, each in a capture  *)
(* group of its own, matched against the whole subject.                    *)
(***************************************************************************)
MaxBranches == 3

MaxAlternationSubject == 2

BranchBodies == {S(<<"a">>), S(<<"a", "b">>)}

AlternationCases == UNION {[1..k -> BranchBodies] : k \in 2..MaxBranches}

RECURSIVE AlternationFrom(_, _)
AlternationFrom(bodies, i) ==
    S(<<"(">>) \o bodies[i] \o S(<<")">>)
       \o (IF i = Len(bodies) THEN <<>> ELSE S(<<"|">>) \o AlternationFrom(bodies, i + 1))

AlternationPattern(bodies) == AlternationFrom(bodies, 1)

AlternationSessions ==
    {Both(AlternationPattern(bodies), subject, FALSE, FALSE) :
        bodies \in AlternationCases,
        subject \in Texts({Ord("a"), Ord("b")}, MaxAlternationSubject)}

InitAlternation == InitWith(AlternationSessions)

SpecAlternation == InitAlternation /\ [][Next]_vars

\* The branches of bodies that match the whole of subject.
matching_branches(bodies, subject) == {i \in 1..Len(bodies) : bodies[i] = subject}

\* C1: when exec (without AnyMatch) has returned for b1|...|bk, it reports a
\* match iff some branch matches, and the captures are those of the leftmost
\* branch that matches: its group is set and no other group is.
LeftmostBranchWins ==
    phase = "done" =>
        \A bodies \in AlternationCases :
            cur.re = AlternationPattern(bodies) =>
                LET can == matching_branches(bodies, cur.subject) IN
                /\ matched <=> can # {}
                /\ can # {} =>
                      \A i \in 1..Len(bodies) :
                          participated(captures, i) <=> i = Min(can)

(***************************************************************************)
(* Quantified atoms X{m,n}, X{m}, X{m,}, X{,n}, matched against the whole  *)
(* of a subject that repeats X.                                            *)
(***************************************************************************)
MaxCount == 2

AtomBodies == {S(<<"a">>), S(<<"a", "b">>)}

\* The atom that matches body: a literal, or a non-capturing group.
AtomPattern(body) ==
    IF Len(body) = 1 THEN body ELSE S(<<"(", "?", ":">>) \o body \o S(<<")">>)

Digit(n) == <<Ord("0") + n>>

BraceForms == {"range", "exact", "atleast", "atmost"}

BraceCases ==
    {c \in [form : BraceForms, m : 0..MaxCount, n : 0..MaxCount] :
        /\ c.form = "range" => c.m <= c.n
        /\ c.form \in {"exact", "atleast"} => c.n = c.m
        /\ c.form = "atmost" => c.m = 0}

BracePattern(c) ==
    S(<<"{">>)
       \o (CASE c.form = "range" -> Digit(c.m) \o S(<<",">>) \o Digit(c.n)
             [] c.form = "exact" -> Digit(c.m)
             [] c.form = "atleast" -> Digit(c.m) \o S(<<",">>)
             [] c.form = "atmost" -> S(<<",">>) \o Digit(c.n))
       \o S(<<"}">>)

\* Whether the quantifier of c allows k repetitions.
BraceAllows(c, k) ==
    CASE c.form = "range" -> c.m <= k /\ k <= c.n
      [] c.form = "exact" -> k = c.m
      [] c.form = "atleast" -> k >= c.m
      [] c.form = "atmost" -> k <= c.n

QuantifierSessions ==
    {Both(AtomPattern(body) \o BracePattern(c), Repeat(body, k), FALSE, FALSE) :
        body \in AtomBodies, c \in BraceCases, k \in 0..(MaxCount + 1)}

InitQuantifier == InitWith(QuantifierSessions)

SpecQuantifier == InitQuantifier /\ [][Next]_vars

\* C2: the program compiled from X{..} accepts k repetitions of X iff the
\* quantifier allows the count k.
CountsAsQuantified ==
    phase = "done" =>
        \A body \in AtomBodies, c \in BraceCases, k \in 0..(MaxCount + 1) :
            (/\ cur.re = AtomPattern(body) \o BracePattern(c)
             /\ cur.subject = Repeat(body, k))
                => (matched <=> BraceAllows(c, k))

(***************************************************************************)
(* Greedy and lazy quantifiers: (a<q>) followed by a literal tail, searched *)
(* for in a subject, so that several repetition counts can give a match    *)
(* from the same start.                                                    *)
(***************************************************************************)
MaxGreedySubject == 2

GreedyForms == {"star", "plus", "optional", "range"}

GreedyCases ==
    {c \in [form : GreedyForms, m : 0..MaxCount, n : 0..MaxCount, lazy : BOOLEAN,
            tail : {<<>>, S(<<"b">>)}] :
        /\ c.form = "range" => c.m <= c.n
        /\ c.form # "range" => c.m = 0 /\ c.n = 0}

GreedyPattern(c) ==
    S(<<"(", "a">>)
       \o (CASE c.form = "star" -> S(<<"*">>)
             [] c.form = "plus" -> S(<<"+">>)
             [] c.form = "optional" -> S(<<"?">>)
             [] c.form = "range" ->
                   S(<<"{">>) \o Digit(c.m) \o S(<<",">>) \o Digit(c.n) \o S(<<"}">>))
       \o (IF c.lazy THEN S(<<"?">>) ELSE <<>>)
       \o S(<<")">>) \o c.tail

\* Whether the quantifier of c allows k repetitions.
GreedyAllows(c, k) ==
    CASE c.form = "star" -> TRUE
      [] c.form = "plus" -> k >= 1
      [] c.form = "optional" -> k <= 1
      [] c.form = "range" -> c.m <= k /\ k <= c.n

\* Whether subject holds k times a and then the tail of c from offset from on.
RepeatsAt(c, subject, from, k) ==
    /\ from >= 0
    /\ from + k + Len(c.tail) <= Len(subject)
    /\ SubSeq(subject, from + 1, from + k + Len(c.tail)) = Repeat(S(<<"a">>), k) \o c.tail

\* The counts that allow the pattern of c to match from where the reported
\* match starts in the direction of r: at caps[0] Forward, and ending at
\* caps[1] Backward.
CountsFromStart(c, r, caps) ==
    {k \in 0..Len(r.subject) :
        /\ GreedyAllows(c, k)
        /\ RepeatsAt(c, r.subject,
                     IF r.direction = "Forward" THEN caps[1]
                     ELSE caps[2] - Len(c.tail) - k, k)}

GreedySessions ==
    {Both(GreedyPattern(c), subject, TRUE, FALSE) :
        c \in GreedyCases, subject \in Texts({Ord("a"), Ord("b")}, MaxGreedySubject)}

InitGreedy == InitWith(GreedySessions)

SpecGreedy == InitGreedy /\ [][Next]_vars

\* C3: when a search for (a<q>)tail has matched, group 1 holds the largest of
\* the counts that allow a match from the reported start if q is greedy, and
\* the smallest of them if q is lazy.
GreedyTakesMost ==
    (phase = "done" /\ matched) =>
        \A c \in GreedyCases :
            cur.re = GreedyPattern(c) =>
                LET counts == CountsFromStart(c, cur, captures) IN
                /\ counts # {}
                /\ participated(captures, 1)
                /\ captures[4] - captures[3] =
                      (IF c.lazy THEN Min(counts) ELSE Max(counts))

(***************************************************************************)
(* Start characters and searches: patterns that start with literals, case  *)
(* insensitive literals, classes, groups, empty branches and assertions,   *)
(* on subjects that hold k, K and the Kelvin sign, whose lower case is k.  *)
(***************************************************************************)
MaxStartSubject == 2

StartPatterns ==
    {S(<<"k">>),
     S(<<"(", "?", "i", ")", "k">>),
     S(<<"(", "?", "i", ")", "K", "a">>),
     S(<<"(", "?", "i", ")", "KELVIN">>),
     S(<<"a", "|", "k">>),
     S(<<"(", "a", "|", ")", "k">>),
     S(<<"(", "?", ":", "a", "*", "k", ")", "+">>),
     S(<<"\\", "b", "k">>),
     S(<<"(", "?", "=", "a", ")", ".", "k">>),
     S(<<"[", "a", "K", "]">>),
     S(<<"a", "?", "k">>),
     S(<<"a", "{", "2", "}">>)}

StartAlphabet == {Ord("a"), Ord("k"), Ord("K"), Ord("KELVIN")}

StartCharsSessions ==
    {Both(re, subject, FALSE, FALSE) :
        re \in StartPatterns, subject \in Texts(StartAlphabet, MaxStartSubject)}

InitStartChars == InitWith(StartCharsSessions)

SpecStartChars == InitStartChars /\ [][Next]_vars

\* The entry of the start characters map that stands for the code point cp.
start_chars_entry(cp) == IF cp < StartChars_count THEN cp ELSE StartChars_other

\* C5: when a program that has a start characters map matches a subject, the
\* map's entry for the first code point of the subject in the direction of
\* the match is true.
StartCharsSound ==
    (/\ phase = "done"
     /\ matched
     /\ cur.subject # <<>>
     /\ program.start_chars.present)
        => start_chars_entry(char_at(cur.subject,
                                     begin_pos(cur.subject, cur.direction),
                                     cur.direction)) \in program.start_chars.map

(***************************************************************************)
(* Searches.  The positions at which a pattern can match are those from    *)
(* which some run of the program's instructions after the search prefix,   *)
(* whatever the priority of its threads, reaches Match.                    *)
(***************************************************************************)
\* The configurations one instruction away from the configuration c.
Successors(prog, subj, c) ==
    LET r == step(prog, subj, Thread(c.inst, c.saves), c.pos) IN
    CASE r.kind = "Continue" ->
            {[inst |-> r.thread.inst, saves |-> r.thread.saves, pos |-> c.pos]}
               \cup {[inst |-> r.push[i].inst, saves |-> r.push[i].saves, pos |-> c.pos] :
                        i \in 1..Len(r.push)}
      [] r.kind = "Consumed" ->
            {[inst |-> r.thread.inst, saves |-> r.thread.saves,
              pos |-> next_pos(c.pos, prog.direction)]}
      [] OTHER -> {}

RECURSIVE Reachable(_, _, _, _)
Reachable(prog, subj, frontier, seen) ==
    IF frontier = {} THEN seen
    ELSE LET new == UNION {Successors(prog, subj, c) : c \in frontier} \ seen
         IN Reachable(prog, subj, new, seen \cup new)

\* Whether the pattern of prog can match with its first code point at from.
CanMatchFrom(prog, subj, from) ==
    LET first == [inst |-> search_prefix_size,
                  saves |-> [i \in 1..prog.save_count |-> NoPos], pos |-> from]
    IN \E c \in Reachable(prog, subj, {first}, {first}) :
           prog.instructions[c.inst + 1].op = "Match"

MaxSearchSubject == 2

SearchSessions ==
    {Both(re, subject, TRUE, FALSE) :
        re \in StartPatterns, subject \in Texts(StartAlphabet, MaxSearchSubject)}

InitSearch == InitWith(SearchSessions)

SpecSearch == InitSearch /\ [][Next]_vars

\* The positions of the subject of run r at which the pattern of prog can match.
MatchStarts(prog, r) ==
    {s \in 0..Len(r.subject) : CanMatchFrom(prog, r.subject, s)}

\* C4: the match a search reports starts at the first position of the scan at
\* which the pattern can match: the leftmost start Forward, the rightmost end
\* Backward.
SearchFindsFirstStart ==
    (phase = "done" /\ matched) =>
        IF cur.direction = "Forward"
        THEN captures[1] = Min(MatchStarts(program, cur))
        ELSE captures[2] = Max(MatchStarts(program, cur))

(***************************************************************************)
(* Directions: every pattern is compiled and run Forward and then          *)
(* Backward on the same subject, as a full match and as a search.          *)
(***************************************************************************)
MaxDirectionSubject == 3

DirectionPatterns ==
    {S(<<"a", "b">>),
     S(<<"a", "*", "(", "b", ")">>),
     S(<<"(", "a", "|", "a", "b", ")", "(", "b", "|", ")">>),
     S(<<"\\", "Q", "a", "b", "\\", "E", "a", "?">>),
     S(<<"(", "a", "b", "|", "b", ")", "+">>),
     S(<<"(", "|", "a", ")", "+", "b">>),
     S(<<"a", "{", "1", ",", "2", "}", "?", "(", "b", "?", ")">>),
     S(<<"^", "a", ".", "$">>),
     S(<<"(", "a", "$", ")", ".">>),
     S(<<".", "^", "b">>),
     S(<<"\\", "A", "a", ".", "*", "\\", "z">>),
     S(<<"\\", "b", "a", "\\", "B", ".">>),
     S(<<"a", "(", "?", "=", "b", ")", ".">>),
     S(<<".", "(", "?", "<", "=", "a", ")", "(", "b", ")">>),
     S(<<"a", "(", "?", "!", "b", ")", ".", "*">>),
     S(<<".", "*", "(", "?", "<", "!", "a", ")", "b">>),
     S(<<"(", "?", "=", "a", "b", ")", "a", ".">>),
     S(<<"(", ".", ".", ")", "(", "?", "<", "=", "a", "b", ")">>),
     S(<<"a", "\\", "K", "b">>),
     S(<<"(", "?", "i", ")", "A", "(", "?", "=", "B", ")", ".">>)}

DirectionAlphabet == {Ord("a"), Ord("b"), Ord("NL")}

\* The exec flags [search, any_match]; AnyMatch is of use to a search only.
ExecFlags == {<<FALSE, FALSE>>, <<TRUE, FALSE>>, <<TRUE, TRUE>>}

DirectionSessions ==
    {Both(re, subject, flags[1], flags[2]) :
        re \in DirectionPatterns,
        subject \in Texts(DirectionAlphabet, MaxDirectionSubject),
        flags \in ExecFlags}

InitDirections == InitWith(DirectionSessions)

SpecDirections == InitDirections /\ [][Next]_vars

\* C6: the Forward and the Backward program of one pattern accept the same
\* subjects as full matches.
DirectionsAgree ==
    \A i, j \in 1..Len(log) :
        (/\ log[i].re = log[j].re
         /\ log[i].subject = log[j].subject
         /\ ~log[i].search /\ ~log[j].search
         /\ log[i].direction = "Forward" /\ log[j].direction = "Backward")
            => (log[i].matched <=> log[j].matched)

\* A subject was accepted in both directions by programs that hold a
\* lookaround, whose opcode the Backward compilation swaps.
DirectionsAgreeWitness ==
    /\ Len(log) = 2
    /\ ~log[1].search
    /\ log[1].direction = "Forward" /\ log[1].matched
    /\ log[2].direction = "Backward" /\ log[2].matched
    /\ \E k \in 1..Len(log[2].program.instructions) :
           log[2].program.instructions[k].op = "LookAhead"
    /\ \E k \in 1..Len(log[1].program.instructions) :
           log[1].program.instructions[k].op = "LookBehind"

\* C7: after every successful exec, captures[0] <= captures[1], and the two
\* slots of every group that took part in the match are ordered as well.
CapturesOrdered ==
    (phase = "done" /\ matched) =>
        /\ participated(captures, 0)
        /\ \A v \in 0..(program.save_count \div 2 - 1) :
              participated(captures, v) => captures[2 * v + 1] <= captures[2 * v + 2]

\* A Backward search has matched a non-empty text with a non-empty group.
CapturesOrderedWitness ==
    /\ phase = "done" /\ matched
    /\ cur.direction = "Backward" /\ cur.search
    /\ captures[1] < captures[2]
    /\ program.save_count >= 4
    /\ participated(captures, 1)
    /\ captures[3] < captures[4]

(***************************************************************************)
(* Loops over bodies that can match the empty text.                        *)
(***************************************************************************)
MaxLoopSubject == 2

LoopPatterns ==
    {S(<<"(", ")", "*">>),
     S(<<"(", "a", "|", ")", "*">>),
     S(<<"(", "?", ":", "(", "?", "=", ")", ")", "*">>),
     S(<<"(", "?", ":", "a", "*", ")", "*">>),
     S(<<"(", ")", "{", "2", ",", "}">>),
     S(<<"(", "?", ":", ")", "+", "a">>),
     S(<<"(", "a", "?", ")", "+", "?">>)}

LoopAlphabet == {Ord("a"), Ord(" ")}

LoopSessions ==
    {Both(re, subject, flags[1], flags[2]) :
        re \in LoopPatterns,
        subject \in Texts(LoopAlphabet, MaxLoopSubject),
        flags \in ExecFlags}

InitLoops == InitWith(LoopSessions)

SpecLoops == InitLoops /\ [][Next]_vars

\* C8: at one position of one exec no instruction is scheduled twice, and the
\* instructions scheduled are those the duplicate suppression has recorded.
ScheduledAtMostOnce ==
    phase = "exec" =>
        /\ \A i, j \in 1..Len(dispatched) : i # j => dispatched[i] # dispatched[j]
        /\ scheduled = {dispatched[i] : i \in 1..Len(dispatched)}

\* In an exec of ()*, a thread has come back to an instruction that was
\* already scheduled at this position.
ScheduledAtMostOnceWitness ==
    /\ phase = "exec"
    /\ cur.re = S(<<"(", ")", "*">>)
    /\ thread # NoThread
    /\ thread.inst \in scheduled
    /\ program.instructions[thread.inst + 1].op = "Save"

\* The steps one exec of prog on subj can take: at each of the positions, each
\* instruction is executed at most once and pushes at most one thread.
StepBound(prog, subj) == (Len(subj) + 1) * (5 * Len(prog.instructions) + 1)

\* C9: exec never stops before it returns, takes a bounded number of steps,
\* and returns a boolean.
ExecTerminates ==
    /\ phase = "exec" =>
          /\ steps <= StepBound(program, cur.subject)
          /\ ENABLED Next
    /\ phase = "done" => matched \in BOOLEAN

\* exec has returned from a search for a loop over an empty body that went
\* through the search prefix at more than one position.
ExecTerminatesWitness ==
    /\ phase = "done"
    /\ cur.re = S(<<"(", "?", ":", ")", "+", "a">>)
    /\ cur.search
    /\ cur.subject = S(<<" ", "a">>)
    /\ matched

\* The execution of ()* on one character, as a full match, returned no match.
EmptyLoopReturns ==
    /\ phase = "done"
    /\ cur.re = S(<<"(", ")", "*">>)
    /\ cur.subject = S(<<" ">>)
    /\ ~cur.search
    /\ ~matched

(***************************************************************************)
(* Compilations: a process compiles a pattern, then another one, then the  *)
(* first one again, with the same flags and direction.                     *)
(***************************************************************************)
MaxCompileSubject == 1

CompilePatterns ==
    {S(<<"k">>),
     S(<<"(", "?", "i", ")", "k">>),
     S(<<"(", "?", "i", ")", "a", "(", "?", "I", ")", "k">>),
     S(<<"(", "[", "a", "-", "k", "]", ")">>),
     S(<<"(", "?", "i", ")", "[", "a", "-", "k", "]">>),
     S(<<"(", "?", "<", "=", "k", ")", "|", "k">>)}

CompileSessions ==
    {<<Run(p, subject, no_subs, direction, FALSE, FALSE),
       Run(q, subject, no_subs, direction, FALSE, FALSE),
       Run(p, subject, no_subs, direction, FALSE, FALSE)>> :
        p \in CompilePatterns, q \in CompilePatterns,
        subject \in Texts({Ord("K")}, MaxCompileSubject),
        no_subs \in BOOLEAN, direction \in {"Forward", "Backward"}}

InitCompile == InitWith(CompileSessions)

SpecCompile == InitCompile /\ [][Next]_vars

\* C10: two compilations with the same pattern, flags and direction give the
\* same program (instructions, lookarounds, save_count, start characters and
\* matchers), whatever was compiled between them.
CompileDeterministic ==
    \A i, j \in 1..Len(log) :
        (/\ log[i].re = log[j].re
         /\ log[i].no_subs = log[j].no_subs
         /\ log[i].direction = log[j].direction)
            => log[i].program = log[j].program

\* The pattern k was compiled again after (?i)k, whose parse ended in the
\* case-insensitive mode and whose program matched K, and did not match K.
CompileDeterministicWitness ==
    /\ Len(log) = 3
    /\ log[1].re = S(<<"k">>)
    /\ log[2].re = S(<<"(", "?", "i", ")", "k">>)
    /\ log[3].re = S(<<"k">>)
    /\ parsed_ignore_case(log[2].re, FALSE)
    /\ log[2].matched
    /\ ~log[3].matched

(***************************************************************************)
(* Syntax characters: every short pattern over a literal, the characters   *)
(* atom() reserves, and the group and alternation characters.              *)
(***************************************************************************)
MaxSyntaxPattern == 3

\* * + ? ] { }
Reserved == {42, 43, 63, 93, 123, 125}

SyntaxAlphabet == Reserved \cup {Ord("a"), Ord("("), Ord(")"), Ord("|")}

SyntaxSessions ==
    {Both(re, subject, FALSE, FALSE) :
        re \in Texts(SyntaxAlphabet, MaxSyntaxPattern),
        subject \in Texts({Ord("a")}, 1)}

InitSyntax == InitWith(SyntaxSessions)

SpecSyntax == InitSyntax /\ [][Next]_vars

\* The parser consumed the whole of re.
consumed(st) == st.m_pos = Len(st.m_regex) + 1

\* No Literal node of the parse holds one of the code points of chars.
no_literal_of(st, chars) ==
    \A i \in 1..Len(st.nodes) :
        st.nodes[i].op = "Literal" => st.nodes[i].value \notin chars

\* C11: a compilation succeeds only when the parser consumed the whole
\* pattern, and an unescaped * + ? ] { } or ) is never taken as a literal.
UnexpectedSyntaxRejected ==
    (phase # "idle" /\ ~program.err) =>
        /\ consumed(RegexParser(cur.re, FALSE))
        /\ no_literal_of(RegexParser(cur.re, FALSE), Reserved \cup {41})

(***************************************************************************)
(* Truncated constructs: every prefix of a pattern that ends with an       *)
(* escape, a braced quantifier, a character class or a group.  opens is    *)
(* the number of characters before the construct's first character.        *)
(***************************************************************************)
MaxTruncatedSubject == 1

Constructs ==
    {[text |-> S(<<"a", "\\", "x", "4", "1">>), opens |-> 1],
     [text |-> S(<<"\\", "u", "0", "0", "4", "1">>), opens |-> 0],
     [text |-> S(<<"a", "\\", "c", "A">>), opens |-> 1],
     [text |-> S(<<"\\", "n">>), opens |-> 0],
     [text |-> S(<<"a", "{", "1", ",", "2", "}">>), opens |-> 1],
     [text |-> S(<<"a", "{", ",", "2", "}">>), opens |-> 1],
     [text |-> S(<<"a", "{", "2", "}">>), opens |-> 1],
     [text |-> S(<<"[", "a", "-", "b", "]">>), opens |-> 0],
     [text |-> S(<<"a", "[", "^", "\\", "n", "]">>), opens |-> 1],
     [text |-> S(<<"[", "\\", "d", "a", "]">>), opens |-> 0],
     [text |-> S(<<"(", "a", "|", "b", ")">>), opens |-> 0],
     [text |-> S(<<"a", "(", "?", ":", "b", ")">>), opens |-> 1],
     [text |-> S(<<"(", "?", "=", "a", ")">>), opens |-> 0],
     [text |-> S(<<"(", "?", "<", "!", "a", ")">>), opens |-> 0],
     [text |-> S(<<"(", "(", "a", ")", ")">>), opens |-> 0]}

Prefixes(text) == {SubSeq(text, 1, k) : k \in 0..Len(text)}

\* re ends inside one of the constructs.
truncated(re) ==
    \E c \in Constructs : \E k \in (c.opens + 1)..(Len(c.text) - 1) :
        re = SubSeq(c.text, 1, k)

TruncatedSessions ==
    {Both(re, subject, FALSE, FALSE) :
        re \in UNION {Prefixes(c.text) : c \in Constructs},
        subject \in Texts({Ord("a")}, MaxTruncatedSubject)}

InitTruncated == InitWith(TruncatedSessions)

SpecTruncated == InitTruncated /\ [][Next]_vars

\* C12: a pattern that ends inside an escape, a braced quantifier, a
\* character class or a group is rejected with a parse error, and the parser
\* never dereferences its cursor at the end of the pattern.
TruncatedRejectedSafely ==
    phase # "idle" =>
        /\ truncated(cur.re) => program.err
        /\ ~RegexParser(cur.re, FALSE).ub

(***************************************************************************)
(* Case-insensitive classes: (?i)[lo-hi] for every range over a few lower  *)
(* and upper case letters, matched against one character.                  *)
(***************************************************************************)
MaxClassSubject == 1

ClassLetters == {Ord("a"), Ord("b"), Ord("c"), Ord("d"), Ord("A"), Ord("B"), Ord("D")}

ClassCases == {c \in [lo : ClassLetters, hi : ClassLetters] : c.lo <= c.hi}

ClassPattern(c) ==
    S(<<"(", "?", "i", ")", "[">>) \o <<c.lo, Ord("-"), c.hi>> \o S(<<"]">>)

ClassSessions ==
    {Both(ClassPattern(c), subject, FALSE, FALSE) :
        c \in ClassCases, subject \in Texts(ClassLetters, MaxClassSubject)}

InitClasses == InitWith(ClassSessions)

SpecClasses == InitClasses /\ [][Next]_vars

\* C13: a class range lo-hi of a case-insensitive pattern accepts the code
\* points whose lower case lies in [to_lower(lo), to_lower(hi)], and no other.
FoldedRangeMatches ==
    \A c \in ClassCases :
        (phase = "done" /\ cur.re = ClassPattern(c) /\ Len(cur.subject) = 1) =>
            (matched <=> (/\ to_lower(c.lo) <= to_lower(cur.subject[1])
                          /\ to_lower(cur.subject[1]) <= to_lower(c.hi)))

(***************************************************************************)
(* Lookaround bodies: a(?=body).* and the three other lookarounds, for     *)
(* every body of a few elements: literals, any-chars and classes, and the  *)
(* constructs a lookaround may not hold.                                   *)
(***************************************************************************)
MaxLookaroundBody == 2

MaxLookaroundSubject == 1

LookaroundOpens ==
    {S(<<"(", "?", "=">>), S(<<"(", "?", "!">>),
     S(<<"(", "?", "<", "=">>), S(<<"(", "?", "<", "!">>)}

BodyElements ==
    {S(<<"a">>), S(<<".">>), S(<<"[", "a", "b", "]">>), S(<<"\\", "d">>),
     S(<<"(", "a", ")">>), S(<<"^">>), S(<<"\\", "b">>),
     S(<<"(", "?", "!", "a", ")">>), S(<<"\\", "Q", "a", "\\", "E">>),
     S(<<"a", "*">>), S(<<".", "{", "1", "}">>), S(<<"|">>)}

LookaroundBodies == UNION {[1..k -> BodyElements] : k \in 0..MaxLookaroundBody}

RECURSIVE BodyText(_, _)
BodyText(body, i) ==
    IF i > Len(body) THEN <<>> ELSE body[i] \o BodyText(body, i + 1)

LookaroundPattern(open, body) ==
    S(<<"a">>) \o open \o BodyText(body, 1) \o S(<<")", ".", "*">>)

LookaroundSessions ==
    {Both(LookaroundPattern(open, body), subject, FALSE, FALSE) :
        open \in LookaroundOpens, body \in LookaroundBodies,
        subject \in Texts({Ord("a")}, MaxLookaroundSubject)}

InitLookarounds == InitWith(LookaroundSessions)

SpecLookarounds == InitLookarounds /\ [][Next]_vars

\* The body of the lookaround of a pattern of the family: the text between
\* the opening (?= (?! (?<= or (?<! and the closing ).*
BodyOf(re) == SubSeq(re, IF re[4] = Ord("<") THEN 6 ELSE 5, Len(re) - 3)

\* Whether text is, from position i on, a run of the elements a . [ab] \d
\* none of which is followed by a quantifier.
RECURSIVE PlainBody(_, _)
PlainBody(text, i) ==
    LET rest(j) ==
            /\ j > Len(text) \/ text[j] \notin {Ord("*"), Ord("+"), Ord("?"), Ord("{")}
            /\ PlainBody(text, j)
    IN IF i > Len(text) THEN TRUE
       ELSE CASE text[i] \in {Ord("a"), Ord(".")} -> rest(i + 1)
              [] text[i] = Ord("[") -> rest(i + 4)
              [] text[i] = Ord("\\") /\ text[i + 1] = Ord("d") -> rest(i + 2)
              [] OTHER -> FALSE

\* C14: a pattern with a lookaround compiles exactly when every element of
\* the lookaround's body is a literal, an any-char or a character class with
\* no quantifier; a group, an anchor, a nested lookaround, a quoted
\* sequence, an alternation or a quantifier in the body is a parse error.
LookaroundBodyValidated ==
    phase # "idle" => (program.err <=> ~PlainBody(BodyOf(cur.re), 1))

\* The compilation of a negative lookahead that holds a quantified literal
\* has failed in both directions.
LookaroundBodyValidatedWitness ==
    /\ Len(log) = 1 /\ log[1].program.err
    /\ log[1].re = S(<<"a", "(", "?", "!", ".", "a", "*", ")", ".", "*">>)
    /\ phase = "done" /\ program.err

(***************************************************************************)
(* Capture groups: every short pattern written with capturing and          *)
(* non-capturing groups, a lookahead and a quantifier that emits its body  *)
(* twice.                                                                  *)
(***************************************************************************)
MaxCaptureTokens == 4

MaxCaptureSubject == 1

CaptureTokens ==
    {S(<<"(">>), S(<<"(", "?", ":">>), S(<<")">>), S(<<")", "{", "2", "}">>),
     S(<<"(", "?", "=", "a", ")">>)}

CapturePatterns ==
    {BodyText(tokens, 1) :
        tokens \in UNION {[1..k -> CaptureTokens] : k \in 0..MaxCaptureTokens}}

CaptureSessions ==
    {Both(re, subject, TRUE, FALSE) :
        re \in CapturePatterns, subject \in Texts({Ord("a")}, MaxCaptureSubject)}

InitCaptures == InitWith(CaptureSessions)

SpecCaptures == InitCaptures /\ [][Next]_vars

\* The number of opening parentheses that open a capturing group (the ones
\* that no ? follows) in the text the parser st has read.
capturing_groups(st) ==
    Cardinality({i \in 1..(st.m_pos - 1) :
                    /\ st.m_regex[i] = Ord("(")
                    /\ (i = Len(st.m_regex) \/ st.m_regex[i + 1] # Ord("?"))})

\* The capture ids of the nodes that carry one, in the order of the nodes,
\* which is the order of the opening parentheses.
capture_ids(nodes) ==
    LET capturing(node) == node.op = "Alternation" /\ node.value # NoValue
        groups == SelectSeq(nodes, capturing)
    IN [i \in 1..Len(groups) |-> groups[i].value]

MaxOverflow == 1

MaxLimitSubject == 1

Braces(count) ==
    S(<<"{">>) \o Digit(count \div 100) \o Digit((count \div 10) % 10)
        \o Digit(count % 10) \o S(<<"}">>)

\* (?:a{inner}){outer}a{more}
Counted(inner, outer, more) ==
    S(<<"(", "?", ":", "a">>) \o Braces(inner) \o S(<<")">>) \o Braces(outer)
        \o S(<<"a">>) \o Braces(more)

LimitPattern(k) == Counted(255, 256, 250) \o Repeat(S(<<"a">>), k)

LimitPatterns ==
    {LimitPattern(k) : k \in 0..MaxOverflow}
        \cup {Counted(m, n, 1) : m \in 1..2, n \in 1..2}

LimitSessions ==
    {Both(re, subject, FALSE, FALSE) :
        re \in LimitPatterns, subject \in Texts({Ord("a")}, MaxLimitSubject)}

InitLimit == InitWith(LimitSessions)

SpecLimit == InitLimit /\ [][Next]_vars

\* C16: no compiled program has more than max_instructions (65535)
\* instructions; a pattern that needs more is rejected.
InstructionLimitHeld ==
    (phase # "idle" /\ ~program.err) =>
        Len(program.instructions) <= max_instructions

(***************************************************************************)
(* Lowering: groups, alternations, a quoted sequence and \K under every    *)
(* quantifier with small counts, compiled with and without NoSubs, Forward *)
(* and then Backward.                                                      *)
(***************************************************************************)
MaxLoweringCount == 2

MaxLoweringSubject == 1

LoweringBodies ==
    {S(<<"a">>),
     S(<<"(", "a", ")">>),
     S(<<"(", "a", "|", "b", ")">>),
     S(<<"(", "?", ":", "a", "|", "b", "|", ")">>),
     S(<<"(", "a", "(", "b", ")", ")">>),
     S(<<"(", "a", "?", "|", "(", "b", ")", "*", ")">>),
     S(<<"(", "?", ":", "(", "a", ")", "|", "b", ")">>),
     S(<<"\\", "Q", "a", "b", "\\", "E">>),
     S(<<"\\", "K", "(", "a", ")">>),
     S(<<"(", "?", "=", "a", ")", "(", "a", ")">>)}

\* {m,n}, {m,} and {,n} for the counts up to MaxLoweringCount; {m} is {m,m}.
LoweringBraces ==
    {S(<<"{">>) \o Digit(m) \o S(<<",">>) \o Digit(n) \o S(<<"}">>) :
        m \in 0..MaxLoweringCount, n \in 0..MaxLoweringCount}
      \cup {S(<<"{">>) \o Digit(m) \o S(<<",", "}">>) : m \in 0..MaxLoweringCount}
      \cup {S(<<"{", ",">>) \o Digit(n) \o S(<<"}">>) : n \in 0..MaxLoweringCount}

LoweringQuantifiers ==
    {<<>>, S(<<"*">>), S(<<"+">>), S(<<"?">>), S(<<"*", "?">>), S(<<"+", "?">>)}
        \cup LoweringBraces

LoweringPatterns ==
    {body \o quant \o S(<<"b">>) : body \in LoweringBodies, quant \in LoweringQuantifiers}

LoweringSessions ==
    {<<Run(re, subject, no_subs, "Forward", FALSE, FALSE),
       Run(re, subject, no_subs, "Backward", FALSE, FALSE)>> :
        re \in LoweringPatterns,
        subject \in Texts({Ord("a")}, MaxLoweringSubject) \cup {S(<<"a", "b">>)},
        no_subs \in BOOLEAN}

InitLowering == InitWith(LoweringSessions)

SpecLowering == InitLowering /\ [][Next]_vars

\* The positions (0-based) of the instructions of prog with one of the ops.
InstructionsOf(prog, ops) ==
    {k \in 0..(Len(prog.instructions) - 1) : prog.instructions[k + 1].op \in ops}

Splits == {"Split_PrioritizeParent", "Split_PrioritizeChild"}

\* C17: in a compiled program the operand of every Split and Jump is the
\* index of an instruction, none is left with the placeholder 0 it was
\* pushed with (the targets of the pattern's instructions lie behind the
\* search prefix), and every Jump, which leaves a branch of an alternation,
\* goes forward.
JumpTargetsValid ==
    (phase # "idle" /\ ~program.err) =>
        /\ \A k \in InstructionsOf(program, Splits \cup {"Jump"}) :
              /\ program.instructions[k + 1].param >= 0
              /\ program.instructions[k + 1].param < Len(program.instructions)
              /\ k >= search_prefix_size
                    => program.instructions[k + 1].param >= search_prefix_size
        /\ \A k \in InstructionsOf(program, {"Jump"}) :
              program.instructions[k + 1].param > k

\* A program with the jumps of an alternation that a quantifier emitted
\* twice, and with the splits of the quantifier, has matched.
JumpTargetsValidWitness ==
    /\ phase = "done" /\ matched
    /\ cur.re = S(<<"(", "a", "|", "b", ")", "{", "1", ",", "2", "}", "b">>)
    /\ Cardinality(InstructionsOf(program, {"Jump"})) = 2
    /\ Cardinality(InstructionsOf(program, Splits)) = 5

\* C18: the operand of every Save is in [0, save_count); a pattern with no
\* capturing group and no \K has no Save but the two of the whole match,
\* whatever else it holds (a non-capturing group, a quoted sequence), and
\* \K adds a Save 0.
SaveOperandsInRange ==
    (phase # "idle" /\ ~program.err) =>
        /\ \A k \in InstructionsOf(program, {"Save"}) :
              /\ program.instructions[k + 1].param >= 0
              /\ program.instructions[k + 1].param < program.save_count
        /\ program.save_count = 2 =>
              Cardinality(InstructionsOf(program, {"Save"})) = 2
        /\ cur.re[2] = Ord("K") =>
              Cardinality({k \in InstructionsOf(program, {"Save"}) :
                              program.instructions[k + 1].param = 0}) = 2

\* The program of \K(a){2}b, with two copies of the group, was compiled
\* Backward and has matched.
SaveOperandsInRangeWitness ==
    /\ phase = "done" /\ matched
    /\ cur.direction = "Backward" /\ ~cur.no_subs
    /\ cur.re = S(<<"\\", "K", "(", "a", ")", "{", "1", ",", "}", "b">>)
    /\ Cardinality(InstructionsOf(program, {"Save"})) = 5

\* The operands of the Save instructions of group v, in program order.
group_saves(prog, v) ==
    LET saves == SelectSeq(prog.instructions,
                           LAMBDA inst : inst.op = "Save" /\ inst.param \div 2 = v)
    IN [i \in 1..Len(saves) |-> saves[i].param]

\* C19: with NoSubs the only Save operands are 0 and 1.  Without it every
\* copy of a capturing group v that the compiler emits opens with a Save and
\* closes with the other one: Save 2v then Save 2v+1 when Forward, Save 2v+1
\* then Save 2v when Backward.
GroupsBracketed ==
    (phase # "idle" /\ ~program.err) =>
        IF cur.no_subs
        THEN \A k \in InstructionsOf(program, {"Save"}) :
                program.instructions[k + 1].param \in {0, 1}
        ELSE \A v \in 1..(program.save_count \div 2 - 1) :
                /\ Len(group_saves(program, v)) >= 2
                /\ Len(group_saves(program, v)) % 2 = 0
                /\ \A i \in 1..Len(group_saves(program, v)) :
                      group_saves(program, v)[i]
                          = 2 * v + (IF (i % 2 = 1) = (cur.direction = "Forward")
                                     THEN 0 ELSE 1)

\* A Backward program with two copies of a group in a group was compiled.
GroupsBracketedWitness ==
    /\ phase = "compiled" /\ ~program.err
    /\ cur.direction = "Backward" /\ ~cur.no_subs
    /\ cur.re = S(<<"(", "a", "(", "b", ")", ")", "{", "2", ",", "2", "}", "b">>)
    /\ group_saves(program, 2) = <<5, 4, 5, 4>>

(***************************************************************************)
(* ResetStart: a text over {a, b} with \K at one of its positions, run on  *)
(* the text itself, Forward and then Backward.                             *)
(***************************************************************************)
MaxResetText == 3

ResetPattern(text, k) ==
    SubSeq(text, 1, k) \o S(<<"\\", "K">>) \o SubSeq(text, k + 1, Len(text))

ResetSessions ==
    UNION {{Both(ResetPattern(text, k), text, search, FALSE) :
                k \in 0..Len(text), search \in BOOLEAN} :
            text \in Texts({Ord("a"), Ord("b")}, MaxResetText)}

InitReset == InitWith(ResetSessions)

SpecReset == InitReset /\ [][Next]_vars

\* The number of characters of the pattern in front of its \K, which is the
\* position in the subject at which a match of the pattern crosses it.
reset_position(re) == (CHOOSE i \in 1..Len(re) : re[i] = Ord("\\")) - 1

\* C20: a successful match of a pattern with \K reports captures[0] as the
\* position at which \K was crossed and captures[1] as the end of the match,
\* Forward and Backward.
ResetStartReported ==
    (phase = "done" /\ matched) =>
        /\ captures[1] = reset_position(cur.re)
        /\ captures[2] = Len(cur.subject)

(***************************************************************************)
(* The syntax tree: patterns of groups, lookaheads, branches and counted   *)
(* atoms, nested up to MaxAstTokens tokens.                                *)
(***************************************************************************)
MaxAstTokens == 4

AstTokens ==
    {S(<<"a">>), S(<<"(">>), S(<<")">>), S(<<"|">>), S(<<"(", "?", "=">>),
     S(<<"{", "2", "}">>)}

AstPatterns ==
    {BodyText(tokens, 1) :
        tokens \in UNION {[1..k -> AstTokens] : k \in 0..MaxAstTokens}}

AstSessions ==
    {Both(re, <<97>>, FALSE, FALSE) : re \in AstPatterns}

InitAst == InitWith(AstSessions)

SpecAst == InitAst /\ [][Next]_vars

\* for_each_child's walk from child: TRUE when it arrives at end, FALSE when
\* it leaves the nodes or passes end.
RECURSIVE walk_lands(_, _, _)
walk_lands(nodes, child, end) ==
    IF child = end THEN TRUE
    ELSE IF child > end \/ child >= Len(nodes) THEN FALSE
    ELSE IF NodeAt(nodes, child).children_end <= child THEN FALSE
    ELSE walk_lands(nodes, NodeAt(nodes, child).children_end, end)

\* The nodes of a vector are well-formed: node 0 spans them all and they are
\* at most max_nodes; the range of every node starts behind it and ends
\* inside the vector; the range of every node in the range of node i ends
\* inside it; the walk over the children of i arrives at children_end(i).
well_formed(nodes) ==
    /\ Len(nodes) >= 1
    /\ Len(nodes) <= max_nodes
    /\ NodeAt(nodes, 0).children_end = Len(nodes)
    /\ \A i \in 0..(Len(nodes) - 1) :
          /\ i < NodeAt(nodes, i).children_end
          /\ NodeAt(nodes, i).children_end <= Len(nodes)
          /\ \A c \in (i + 1)..(NodeAt(nodes, i).children_end - 1) :
                NodeAt(nodes, c).children_end <= NodeAt(nodes, i).children_end
          /\ walk_lands(nodes, i + 1, NodeAt(nodes, i).children_end)

\* C21: after every successful parse the nodes are well-formed.
AstWellFormed ==
    (phase # "idle" /\ ~RegexParser(cur.re, FALSE).err) =>
        well_formed(RegexParser(cur.re, FALSE).nodes)

\* (a)a was parsed to 6 nodes and compiled: the root and its branch span
\* them all, the group and its branch end in front of the last literal.
AstWellFormedWitness ==
    /\ phase = "compiled" /\ ~program.err
    /\ cur.re = S(<<"(", "a", ")", "a">>)
    /\ [i \in 1..Len(RegexParser(cur.re, FALSE).nodes) |->
            RegexParser(cur.re, FALSE).nodes[i].children_end]
          = <<6, 6, 5, 5, 5, 6>>

(***************************************************************************)
(* Ranges: a character class of up to MaxRanges ranges x-y, x <= y, over   *)
(* the letters a .. c, run on one character.                               *)
(***************************************************************************)
MaxRanges == 3

RangeLetters == 97..99

\* The characters run against a class: one of its letters and the one behind
\* them.
RangeSubjects == {<<99>>, <<100>>}

RangeItems ==
    UNION {{<<lo, 45, hi>> : hi \in {c \in RangeLetters : c >= lo}} : lo \in RangeLetters}

RangePatterns ==
    {<<91>> \o BodyText(items, 1) \o <<93>> :
        items \in UNION {[1..k -> RangeItems] : k \in 1..MaxRanges}}

RangeSessions ==
    {Both(re, subject, FALSE, FALSE) : re \in RangePatterns, subject \in RangeSubjects}

InitRanges == InitWith(RangeSessions)

SpecRanges == InitRanges /\ [][Next]_vars

\* The ranges written in a pattern [x-y...], in the order of the pattern.
ranges_of(re) ==
    [i \in 1..((Len(re) - 2) \div 3) |-> CharRange(re[3 * i - 1], re[3 * i + 1])]

\* cp is in one of the ranges.
covered(ranges, cp) ==
    \E i \in 1..Len(ranges) : ranges[i].min <= cp /\ cp <= ranges[i].max

\* The orders std::sort may leave the ranges in: it is not stable, and ranges
\* with the same min may come in any order.
sorted_orders(ranges) ==
    {[i \in 1..Len(ranges) |-> ranges[p[i]]] :
        p \in {q \in [1..Len(ranges) -> 1..Len(ranges)] :
                  /\ \A i, j \in 1..Len(ranges) : i # j => q[i] # q[j]
                  /\ \A i \in 1..(Len(ranges) - 1) :
                        ranges[q[i]].min <= ranges[q[i + 1]].min}}

\* C22: the ranges normalize_ranges returns are ascending with a gap between
\* neighbours, they cover the code points the ranges it was given cover and
\* no other, normalizing them again changes nothing, and the order std::sort
\* leaves equal mins in makes no difference; the class parsed from the ranges
\* matches a character iff a range covers it.
RangesNormalized ==
    phase # "idle" =>
        /\ \A i \in 1..Len(normalize_ranges(ranges_of(cur.re))) :
              /\ normalize_ranges(ranges_of(cur.re))[i].min
                    <= normalize_ranges(ranges_of(cur.re))[i].max
              /\ i > 1 =>
                    normalize_ranges(ranges_of(cur.re))[i - 1].max + 1
                        < normalize_ranges(ranges_of(cur.re))[i].min
        /\ \A cp \in 96..101 :
              covered(normalize_ranges(ranges_of(cur.re)), cp)
                  <=> covered(ranges_of(cur.re), cp)
        /\ normalize_ranges(normalize_ranges(ranges_of(cur.re)))
              = normalize_ranges(ranges_of(cur.re))
        /\ \A sorted \in sorted_orders(ranges_of(cur.re)) :
              merge_ranges(<<sorted[1]>>, sorted, 2) = normalize_ranges(ranges_of(cur.re))
        /\ ~program.err
        /\ phase = "done" => (matched <=> covered(ranges_of(cur.re), cur.subject[1]))

\* [c-ca-aa-a] was normalized to a-a and c-c, and has matched c.
RangesNormalizedWitness ==
    /\ phase = "done" /\ matched
    /\ cur.re = <<91, 99, 45, 99, 97, 45, 97, 97, 45, 97, 93>>
    /\ cur.subject = <<99>>
    /\ normalize_ranges(ranges_of(cur.re)) = <<CharRange(97, 97), CharRange(99, 99)>>

(***************************************************************************)
(* Presence of the start characters map: one or two quantified atoms, in   *)
(* sequence or as the two branches of an alternation.                      *)
(***************************************************************************)
MaxPresenceSubject == 1

PresenceAtoms ==
    {S(<<"a">>), S(<<".">>), S(<<"\\", "b">>), S(<<"\\", "d">>), S(<<"\\", "D">>),
     S(<<"(", "a", "|", ")">>), S(<<"(", "?", "=", "a", ")">>)}

PresenceQuantifiers ==
    {<<>>, S(<<"?">>), S(<<"*">>), S(<<"+">>), S(<<"{", ",", "1", "}">>)}

PresenceTerms ==
    {unit \o quant : unit \in PresenceAtoms, quant \in PresenceQuantifiers} \cup {<<>>}

PresencePatterns ==
    {t1 \o t2 : t1 \in PresenceTerms, t2 \in PresenceTerms}
        \cup {t1 \o <<124>> \o t2 : t1 \in PresenceTerms, t2 \in PresenceTerms}

PresenceSessions ==
    {Both(re, subject, FALSE, FALSE) :
        re \in PresencePatterns, subject \in Texts({Ord("a")}, MaxPresenceSubject)}

InitPresence == InitWith(PresenceSessions)

SpecPresence == InitPresence /\ [][Next]_vars

\* Node index can match without consuming a character: a character that
\* may be left out, a sequence of such nodes, an alternation with such a
\* branch, an assertion.
RECURSIVE nullable(_, _)
nullable(nodes, index) ==
    \/ allows_none(NodeAt(nodes, index).quantifier)
    \/ CASE NodeAt(nodes, index).op \in {"Literal", "AnyChar", "Matcher"} -> FALSE
         [] NodeAt(nodes, index).op = "Sequence" ->
                \A i \in 1..Len(Children(nodes, index)) :
                    nullable(nodes, Children(nodes, index)[i])
         [] NodeAt(nodes, index).op = "Alternation" ->
                \E i \in 1..Len(Children(nodes, index)) :
                    nullable(nodes, Children(nodes, index)[i])
         [] OTHER -> TRUE

\* The entries written for a pattern, whether or not the map is kept.
written_entries(st, direction) ==
    compute_start_chars([nodes |-> st.nodes, capture_count |-> st.capture_count,
                         matchers |-> st.matchers],
                        [no_subs |-> FALSE, forward |-> direction = "Forward"], 0, {}).map

\* C23: a program has a start characters map only if its pattern is not
\* nullable and an entry of the map is false; the program of a nullable
\* pattern, and one for which every entry was written, has none; and a
\* program that has matched the empty text has none.
StartCharsPresence ==
    (phase # "idle" /\ ~program.err) =>
        /\ program.start_chars.present =>
              /\ ~nullable(RegexParser(cur.re, FALSE).nodes, 0)
              /\ program.start_chars.map \subseteq 0..StartChars_other
              /\ program.start_chars.map # 0..StartChars_other
        /\ nullable(RegexParser(cur.re, FALSE).nodes, 0) => ~program.start_chars.present
        /\ (0..StartChars_other)
              \subseteq written_entries(RegexParser(cur.re, FALSE), cur.direction)
                  => ~program.start_chars.present
        /\ (phase = "done" /\ matched /\ captures[1] = captures[2])
              => ~program.start_chars.present

\* The program of a+|a has the map with the one entry of a and has matched.
StartCharsPresenceWitness ==
    /\ phase = "done" /\ matched
    /\ cur.re = S(<<"a", "+", "|", "a">>)
    /\ program.start_chars = [present |-> TRUE, map |-> {97}]

\* The program of \d|\D, for which every entry was written, has no map.
StartCharsAbsentWitness ==
    /\ phase = "done" /\ matched
    /\ cur.re = S(<<"\\", "d", "|", "\\", "D">>)
    /\ ~program.start_chars.present

(***************************************************************************)
(* The vector: constructed from at most capacity values, then resized and  *)
(* written.                                                                *)
(***************************************************************************)
InitVector ==
    /\ \E items \in Texts(VectorValues, capacity) : InitVectorWith(items)
    /\ session = <<Run(<<97>>, <<97>>, FALSE, "Forward", FALSE, FALSE)>>
    /\ run = 1
    /\ phase = "idle"
    /\ m_ignore_case = FALSE
    /\ program = RegexError
    /\ pos = 0
    /\ thread = NoThread
    /\ current_threads = <<>>
    /\ next_threads = <<>>
    /\ scheduled = {}
    /\ dispatched = <<>>
    /\ steps = 0
    /\ find_next_start = FALSE
    /\ found_match = FALSE
    /\ captures = <<>>
    /\ matched = FALSE
    /\ log = <<>>

SpecVector == InitVector /\ [][NextVector]_vars

\* C24: after resize(n, val) has returned, size() is n; when n was greater
\* than the size the elements in front of the old size are the ones they
\* were and the ones from the old size to n are val; when n was smaller
\* no element has changed.
ResizeFills ==
    (last_resize.n >= 0 /\ ~last_resize.thrown) =>
        /\ m_size = last_resize.n
        /\ \A i \in 0..(capacity - 1) :
              IF last_resize.m_size <= i /\ i < last_resize.n
              THEN m_data[i] = last_resize.val
              ELSE m_data[i] = last_resize.m_data[i]

(***************************************************************************)
(* Class escapes: every escape e of \d \D \w \W \s \S \h \H is run bare,   *)
(* then as the one-item class [e], on the same subject.                    *)
(***************************************************************************)
MaxEscapeSubject == 1

\* d D w W s S h H
EscapeLetters == {100, 68, 119, 87, 115, 83, 104, 72}

\* 5 a A _ space tab newline -
EscapeAlphabet == {53, 97, 65, 95, 32, 9, 10, 45}

BareEscape(e) == <<92, e>>

ClassOfEscape(e) == <<91, 92, e, 93>>

EscapeSessions ==
    {<<Run(BareEscape(e), subject, FALSE, "Forward", FALSE, FALSE),
       Run(ClassOfEscape(e), subject, FALSE, "Forward", FALSE, FALSE)>> :
        e \in EscapeLetters, subject \in Texts(EscapeAlphabet, MaxEscapeSubject)}

InitEscapes == InitWith(EscapeSessions)

SpecEscapes == InitEscapes /\ [][Next]_vars

\* C25: the one-item class [e] of a class escape e accepts a subject exactly
\* when the bare escape e accepts it; \W and [\W] both reject "_".
ClassAgreesWithEscape ==
    \A e \in EscapeLetters :
        \A i, j \in 1..Len(log) :
            (/\ log[i].re = BareEscape(e)
             /\ log[j].re = ClassOfEscape(e)
             /\ log[i].subject = log[j].subject)
                => /\ log[i].matched <=> log[j].matched
                   /\ (e = 87 /\ log[j].subject = <<95>>) => ~log[j].matched

(***************************************************************************)
(* The lookaround table: (?=body).* and (?<=body).* for every body of a    *)
(* few elements, among them the literal U+F000 written \uF000 and the      *)
(* literal U+F0001 written as itself.  The virtual machine reads the entry *)
(* 0xF0001 as the matcher 0, so U+F0001 stands only in a body that holds a *)
(* class.                                                                  *)
(***************************************************************************)
MaxTableBody == 2

MaxTableSubject == 1

\* (?= and (?<=
TableOpens == {<<40, 63, 61>>, <<40, 63, 60, 61>>}

\* a  .  \d  \uF000  U+F0001
TableElements == {<<97>>, <<46>>, <<92, 100>>, <<92, 117, 70, 48, 48, 48>>, <<983041>>}

TableBodies ==
    {body \in Texts(TableElements, MaxTableBody) :
        (\E i \in 1..Len(body) : body[i] = <<983041>>)
            => (\E i \in 1..Len(body) : body[i] = <<92, 100>>)}

TablePattern(open, body) == open \o BodyText(body, 1) \o <<41, 46, 42>>

TableSessions ==
    {Both(TablePattern(open, body), subject, FALSE, FALSE) :
        open \in TableOpens, body \in TableBodies,
        subject \in Texts({97, 61440}, MaxTableSubject)}

InitTable == InitWith(TableSessions)

SpecTable == InitTable /\ [][Next]_vars

LookaroundOps ==
    {"LookAhead", "NegativeLookAhead", "LookBehind", "NegativeLookBehind",
     "LookAhead_IgnoreCase", "NegativeLookAhead_IgnoreCase",
     "LookBehind_IgnoreCase", "NegativeLookBehind_IgnoreCase"}

\* The entries of table from the 0-based index on, up to the first -1; the
\* sequence <<-2>> when the table ends before a -1.
RECURSIVE entries_from(_, _)
entries_from(table, index) ==
    IF index < 0 \/ index >= Len(table) THEN <<-2>>
    ELSE IF table[index + 1] = -1 THEN <<>>
    ELSE <<table[index + 1]>> \o entries_from(table, index + 1)

\* The element the virtual machine reads an entry as.
read_as(entry) ==
    IF entry = 61440 THEN [op |-> "AnyChar", value |-> NoValue]
    ELSE IF entry > 983040 THEN [op |-> "Matcher", value |-> entry - 983041]
    ELSE [op |-> "Literal", value |-> entry]

\* The element a child of a lookaround node is.
written_as(node) ==
    [op |-> node.op, value |-> IF node.op = "AnyChar" THEN NoValue ELSE node.value]

\* The elements of the body of the lookaround node index, in the order of
\* the table.
body_elements(nodes, index) ==
    LET kids == IF NodeAt(nodes, index).op \in {"LookBehind", "NegativeLookBehind"}
                THEN ChildrenReverse(nodes, index)
                ELSE Children(nodes, index)
    IN [i \in 1..Len(kids) |-> written_as(NodeAt(nodes, kids[i]))]

\* C26: the param of every lookaround instruction starts a sequence of the
\* table that a -1 ends, and the virtual machine reads every entry of the
\* sequence as the element of the body it was written for: no literal is
\* read as an any-char or as a matcher.
LookaroundTableUnambiguous ==
    (phase # "idle" /\ ~program.err) =>
        \A i \in 1..Len(program.instructions) :
            program.instructions[i].op \in LookaroundOps =>
                LET sequence == entries_from(program.lookarounds,
                                             program.instructions[i].param)
                    nodes == RegexParser(cur.re, FALSE).nodes
                IN /\ sequence # <<-2>>
                   /\ \A n \in 0..(Len(nodes) - 1) :
                        NodeAt(nodes, n).op \in {"LookAhead", "LookBehind"} =>
                            [k \in 1..Len(sequence) |-> read_as(sequence[k])]
                                = body_elements(nodes, n)

(***************************************************************************)
(* Start characters of literals: one or two literals among a, K, U+00B5    *)
(* MICRO SIGN and U+212A KELVIN SIGN, case-sensitive and under (?i).       *)
(***************************************************************************)
MaxIndexLiterals == 2

MaxIndexSubject == 1

\* a  K  U+00B5  U+212A
IndexLetters == {97, 75, 181, 8490}

IndexPatterns ==
    {mode \o text :
        mode \in {<<>>, <<40, 63, 105, 41>>},
        text \in Texts(IndexLetters, MaxIndexLiterals) \ {<<>>}}

\* a  U+00B5  U+039C
IndexSessions ==
    {Both(re, subject, FALSE, FALSE) :
        re \in IndexPatterns, subject \in Texts({97, 181, 924}, MaxIndexSubject)}

InitIndex == InitWith(IndexSessions)

SpecIndex == InitIndex /\ [][Next]_vars

\* C27: every entry compute_start_chars writes for a pattern of literals is
\* an entry of the map: the code point of a literal below the size of the
\* table, its lower or upper case under (?i), or the entry 'other'.
StartCharsIndexInRange ==
    (phase # "idle" /\ ~program.err) =>
        written_entries(RegexParser(cur.re, FALSE), cur.direction)
            \subseteq 0..StartChars_other

(***************************************************************************)
(* The specification over the sessions of every family.                    *)
(***************************************************************************)
Families ==
    <<AlternationSessions, QuantifierSessions, GreedySessions, StartCharsSessions,
      SearchSessions, DirectionSessions, LoopSessions, CompileSessions,
      SyntaxSessions, TruncatedSessions, ClassSessions, LookaroundSessions,
      CaptureSessions, LimitSessions, LoweringSessions, ResetSessions,
      AstSessions, RangeSessions, PresenceSessions,
      EscapeSessions, TableSessions, IndexSessions>>

Init == \E f \in 1..Len(Families) : InitWith(Families[f])

Spec == Init /\ [][Next]_vars

=============================================================================
